---- MODULE Spec2Model ----
(***************************************************************************)
(* The session subsystem of golibry/go-http: the session manager, the       *)
(* session record, the two storage backends and the HTTP adapter.           *)
(*                                                                          *)
(* Time is a logical clock `now` counted in ticks, TicksPerSecond of them    *)
(* to the second (the unit in which the MySQL backend stores its expiry     *)
(* instants); durations are counted in ticks too.  The requests of the      *)
(* session specifications arrive on whole seconds; the clients of the       *)
(* storage specification call at any tick.  Session IDs are small integers  *)
(* handed out in order: generateSessionID draws 64 random bytes, so an ID   *)
(* is never issued twice.                                                   *)
(***************************************************************************)
EXTENDS Integers, Sequences, FiniteSets, TLC

\* ------------------------------------------------------------------ bounds
\* The resolution of the clock: ticks to the second.
TicksPerSecond == 2
\* The clock runs for ClockSlack seconds past the configured absolute lifetime.
ClockSlack == 1
\* Session IDs generateSessionID hands out.
MaxIds == 1
\* In-memory session records (sessionImpl objects) alive at one time.
MaxRecs == 2
\* Messages one flash category holds.
MaxFlash == 1
\* options.MaxAge and options.IdleTimeout, in seconds, of the configured manager.
CfgMaxAge == 2
CfgIdleTimeout == 1
\* Messages a flash category is owed at one time in the flash specification.
MaxFlashQueue == 2
\* Effective StartGC calls, so loop goroutines and tickers ever created.
MaxGCStarts == 2
\* The longest TTL, in ticks, a client of the storage sets an entry with.
MaxTTL == 3
MaxTime == (CfgMaxAge + ClockSlack) * TicksPerSecond

\* --------------------------------------------------------------- constants
IDs == 1..MaxIds
Slots == 1..MaxRecs
\* A cookie value that is no session ID the manager ever issued.
BogusId == MaxIds + 1
\* The empty cookie value "".
EmptyValue == 0
\* Request cookies: r.Cookie(name) finds none, or one with a value.
NoCookie == [has |-> FALSE, val |-> EmptyValue]
Cookie(v) == [has |-> TRUE, val |-> v]
Cookies == {NoCookie} \cup {Cookie(v) : v \in {EmptyValue, BogusId} \cup IDs}
Keys == {"k"}
\* Attribute and flash values are Go values of dynamic type.
Vals == {[t |-> "string", v |-> "v"], [t |-> "int", v |-> "42"]}
Msgs == {[t |-> "string", v |-> "m"]}
Categories == {"default"}
\* Options.EncryptionKey: none, a 32-byte key, or a key of a length AES rejects.
NoKey == "nokey"
GoodKey == "key32"
BadLenKey == "key10"
EncryptionKeys == {NoKey, GoodKey, BadLenKey}
Backends == {"memory", "mysql"}

ErrNil == "nil"
ErrSessionNotFound == "session not found"
ErrInvalidSession == "invalid session"
ErrEncryptionFailed == "encryption failed"
ErrDecryptionFailed == "decryption failed"
\* An error of the storage backend (database/sql), returned as it is or wrapped.
ErrStorage == "storage error"
ErrSaveFailed == "failed to save session"
ErrDestroyFailed == "failed to destroy session"
ErrRandom == "failed to generate session ID"
\* The error of aes.NewCipher for a key of another length, wrapped.
ErrCipher == "failed to create cipher"

\* -------------------------------------------------------------------- maps
EmptyMap == [x \in {} |-> x]

MapPut(m, k, v) == [x \in (DOMAIN m) \cup {k} |-> IF x = k THEN v ELSE m[x]]

MapDel(m, k) == [x \in (DOMAIN m) \ {k} |-> m[x]]

\* ------------------------------------------------------------------- codec
\* encoding/json on interface{} values: a Go string is a JSON string, every Go
\* number is a JSON number; decoding into interface{} yields string and float64.
MarshalValue(v) ==
    IF v.t = "string" THEN [j |-> "string", v |-> v.v]
    ELSE [j |-> "number", v |-> v.v]

UnmarshalValue(j) ==
    IF j.j = "string" THEN [t |-> "string", v |-> j.v]
    ELSE [t |-> "float64", v |-> j.v]

MarshalSeq(q) == [i \in 1..Len(q) |-> MarshalValue(q[i])]

UnmarshalSeq(q) == [i \in 1..Len(q) |-> UnmarshalValue(q[i])]

\* json.Marshal(s.data): time.Time is written as RFC 3339 with nanoseconds, which
\* keeps the instant.  A nil FlashData map is written as null (flash_null) and
\* read back as nil (FlashNil); an empty map as {}.
Marshal(d) ==
    [kind       |-> "json",
     id         |-> d.ID,
     attributes |-> [k \in DOMAIN d.Attributes |-> MarshalValue(d.Attributes[k])],
     flash_data |-> [c \in DOMAIN d.FlashData |-> MarshalSeq(d.FlashData[c])],
     flash_null |-> d.FlashNil,
     created_at |-> d.CreatedAt,
     last_access |-> d.LastAccess]

\* json.Unmarshal(data, &sessionData): fails on bytes that are no JSON document.
UnmarshalOk(b) == b.kind = "json"

\* A variant of Unmarshal that takes the creation time from last_access.
UnmarshalLosesCreatedAt(b) ==
    [ID         |-> b.id,
     Attributes |-> [k \in DOMAIN b.attributes |-> UnmarshalValue(b.attributes[k])],
     FlashData  |-> [c \in DOMAIN b.flash_data |-> UnmarshalSeq(b.flash_data[c])],
     FlashNil   |-> b.flash_null,
     CreatedAt  |-> b.last_access,
     LastAccess |-> b.last_access]

Unmarshal(b) ==
    [ID         |-> b.id,
     Attributes |-> [k \in DOMAIN b.attributes |-> UnmarshalValue(b.attributes[k])],
     FlashData  |-> [c \in DOMAIN b.flash_data |-> UnmarshalSeq(b.flash_data[c])],
     FlashNil   |-> b.flash_null,
     CreatedAt  |-> b.created_at,
     LastAccess |-> b.last_access]

\* Bytes that are neither a JSON document nor an AES-GCM ciphertext of any key.
Garbage == [kind |-> "garbage"]

\* encrypt: the identity without a key; aes.NewCipher rejects a key that is not
\* 16, 24 or 32 bytes long; otherwise nonce || Seal(data).
encryptOk(key) == key # BadLenKey

encrypt(key, data) ==
    IF key = NoKey THEN data
    ELSE [kind |-> "sealed", key |-> key, plain |-> data]

\* decrypt: fails for a bad key length, for input shorter than the nonce and for
\* input the key does not authenticate.
decryptOk(key, data) ==
    \/ key = NoKey
    \/ key = GoodKey /\ data.kind = "sealed" /\ data.key = key

decrypt(key, data) ==
    IF key = NoKey THEN data ELSE data.plain

\* ------------------------------------------------- the cipher, byte by byte
\* Payloads as byte sequences, bytes 0 and 1.  gcm.NonceSize() and the length of
\* the GCM tag, in elements of the sequence.
NonceSize == 2
TagSize == 1
\* The longest plaintext.
MaxPlain == 2
Byte == 0..1
BytesUpTo(n) == UNION {[1..k -> Byte] : k \in 0..n}
Nonces == [1..NonceSize -> Byte]

\* A sequence as a number, one number per sequence.
RECURSIVE Code(_)
Code(q) ==
    IF q = <<>> THEN 1 ELSE 2 * Code(SubSeq(q, 1, Len(q) - 1)) + q[Len(q)]

\* AES-GCM of crypto/cipher under a key AES accepts: counter mode, a key
\* stream that depends on the nonce XORed onto the data, and a tag that
\* authenticates nonce and ciphertext and that no other nonce and ciphertext
\* share.
KeyStream(nonce, i) == (Code(nonce) + i) % 2
XORKeyStream(nonce, q) == [i \in 1..Len(q) |-> (q[i] + KeyStream(nonce, i)) % 2]
Tag(nonce, ct) == [i \in 1..TagSize |-> Code(nonce \o ct)]

\* gcm.Seal(dst, nonce, data, nil): dst, the ciphertext, the tag.
gcmSeal(dst, nonce, data) ==
    dst \o XORKeyStream(nonce, data) \o Tag(nonce, XORKeyStream(nonce, data))

\* gcm.Open(nil, nonce, ciphertext, nil): fails unless the tag is the one of
\* nonce and ciphertext.
gcmOpenOk(nonce, c) ==
    /\ Len(c) >= TagSize
    /\ SubSeq(c, Len(c) - TagSize + 1, Len(c)) = Tag(nonce, SubSeq(c, 1, Len(c) - TagSize))

gcmOpen(nonce, c) == XORKeyStream(nonce, SubSeq(c, 1, Len(c) - TagSize))

\* A variant of encryptBytes that does not put the nonce in front.
encryptBytesBare(key, nonce, data) ==
    IF key = NoKey THEN data ELSE gcmSeal(<<>>, nonce, data)

\* encrypt on bytes, with the nonce it read from rand.Reader.
encryptBytes(key, nonce, data) ==
    IF key = NoKey THEN data ELSE gcmSeal(nonce, nonce, data)

\* decrypt on bytes: whether it returns without an error.
decryptBytesOk(key, data) ==
    \/ key = NoKey
    \/ /\ encryptOk(key)
       /\ Len(data) >= NonceSize
       /\ gcmOpenOk(SubSeq(data, 1, NonceSize), SubSeq(data, NonceSize + 1, Len(data)))

\* decrypt on bytes: the error it returns.
decryptBytesErr(key, data) ==
    IF decryptBytesOk(key, data) THEN ErrNil
    ELSE IF ~encryptOk(key) THEN ErrCipher
    ELSE ErrDecryptionFailed

\* decrypt on bytes: the plaintext it returns.
decryptBytes(key, data) ==
    IF key = NoKey THEN data
    ELSE gcmOpen(SubSeq(data, 1, NonceSize), SubSeq(data, NonceSize + 1, Len(data)))

\* ----------------------------------------------------------------- storage
\* The storage is a map from session ID to an entry (data, expiresAt): the
\* sessions map of MemoryStorage, the rows of the MySQLStorage table.
\* MemoryStorage never fails; a MySQLStorage statement may return an error.
CanFail(b) == IF b = "mysql" THEN BOOLEAN ELSE {FALSE}

\* time.Now().UTC().Unix(): the whole seconds of an instant.
Unix(t) == t \div TicksPerSecond

\* int64(expiration.Seconds()): the whole seconds of a duration, rounded toward 0.
Seconds(d) == IF d >= 0 THEN d \div TicksPerSecond ELSE -((-d) \div TicksPerSecond)

\* Storage.Get: [res |-> "data" | "absent" | "error", data, st].
MemoryStorageGet(st, id, t) ==
    IF id \notin DOMAIN st THEN [res |-> "absent", data |-> Garbage, st |-> st]
    ELSE IF t > st[id].expiresAt
         THEN [res |-> "absent", data |-> Garbage, st |-> MapDel(st, id)]
         ELSE [res |-> "data", data |-> st[id].data, st |-> st]

MySQLStorageGet(st, id, t, fail) ==
    IF id = EmptyValue THEN [res |-> "absent", data |-> Garbage, st |-> st]
    ELSE IF fail THEN [res |-> "error", data |-> Garbage, st |-> st]
    ELSE IF id \in DOMAIN st /\ st[id].expiresAt > Unix(t)
         THEN [res |-> "data", data |-> st[id].data, st |-> st]
         ELSE [res |-> "absent", data |-> Garbage, st |-> st]

StorageGet(b, st, id, t, fail) ==
    IF b = "memory" THEN MemoryStorageGet(st, id, t)
    ELSE MySQLStorageGet(st, id, t, fail)

\* Storage.Set: [ok, st].
MemoryStorageSet(st, id, data, ttl, t) ==
    [ok |-> TRUE, st |-> MapPut(st, id, [data |-> data, expiresAt |-> t + ttl])]

MySQLStorageSet(st, id, data, ttl, t, fail) ==
    IF id = EmptyValue THEN [ok |-> TRUE, st |-> st]
    ELSE IF fail THEN [ok |-> FALSE, st |-> st]
    ELSE [ok |-> TRUE,
          st |-> MapPut(st, id, [data |-> data, expiresAt |-> Unix(t) + Seconds(ttl)])]

StorageSet(b, st, id, data, ttl, t, fail) ==
    IF b = "memory" THEN MemoryStorageSet(st, id, data, ttl, t)
    ELSE MySQLStorageSet(st, id, data, ttl, t, fail)

\* A variant of MemoryStorageDelete for which a missing entry is an error.
MemoryStorageDeleteStrict(st, id) == [ok |-> id \in DOMAIN st, st |-> MapDel(st, id)]

\* Storage.Delete: [ok, st].
MemoryStorageDelete(st, id) == [ok |-> TRUE, st |-> MapDel(st, id)]

\* A variant of MySQLStorageDelete that swallows the error of its statement.
MySQLStorageDeleteQuiet(st, id, fail) ==
    [ok |-> TRUE, st |-> IF fail \/ id = EmptyValue THEN st ELSE MapDel(st, id)]

MySQLStorageDelete(st, id, fail) ==
    IF id = EmptyValue THEN [ok |-> TRUE, st |-> st]
    ELSE IF fail THEN [ok |-> FALSE, st |-> st]
    ELSE [ok |-> TRUE, st |-> MapDel(st, id)]

StorageDelete(b, st, id, fail) ==
    IF b = "memory" THEN MemoryStorageDelete(st, id)
    ELSE MySQLStorageDelete(st, id, fail)

\* Storage.Exists.
MemoryStorageExists(st, id, t) == id \in DOMAIN st /\ t < st[id].expiresAt

MySQLStorageExists(st, id, t, fail) ==
    /\ id # EmptyValue
    /\ ~fail
    /\ id \in DOMAIN st
    /\ st[id].expiresAt > Unix(t)

StorageExists(b, st, id, t, fail) ==
    IF b = "memory" THEN MemoryStorageExists(st, id, t)
    ELSE MySQLStorageExists(st, id, t, fail)

\* Storage.Cleanup: [ok, st].
MemoryStorageCleanup(st, t) ==
    [ok |-> TRUE,
     st |-> [id \in {i \in DOMAIN st : ~(t > st[i].expiresAt)} |-> st[id]]]

MySQLStorageCleanup(st, t, fail) ==
    IF fail THEN [ok |-> FALSE, st |-> st]
    ELSE [ok |-> TRUE,
          st |-> [id \in {i \in DOMAIN st : ~(st[i].expiresAt <= Unix(t))} |-> st[id]]]

StorageCleanup(b, st, t, fail) ==
    IF b = "memory" THEN MemoryStorageCleanup(st, t)
    ELSE MySQLStorageCleanup(st, t, fail)

\* ---------------------------------------------------------- session record
\* A sessionImpl: [data |-> SessionData, dirty].  A record's lock makes each of
\* its methods one atomic step.
NoData ==
    [ID |-> EmptyValue, Attributes |-> EmptyMap, FlashData |-> EmptyMap,
     FlashNil |-> FALSE, CreatedAt |-> 0, LastAccess |-> 0]

NoRec == [data |-> NoData, dirty |-> FALSE]

Get(r, key) ==
    IF key \in DOMAIN r.data.Attributes
    THEN [value |-> r.data.Attributes[key], exists |-> TRUE]
    ELSE [value |-> [t |-> "nil", v |-> ""], exists |-> FALSE]

Set(r, key, value) ==
    [r EXCEPT !.data.Attributes = MapPut(@, key, value), !.dirty = TRUE]

\* A variant of Delete that marks the record only when it removed a key.
DeleteIfPresent(r, key) ==
    [r EXCEPT !.data.Attributes = MapDel(@, key),
              !.dirty = @ \/ key \in DOMAIN r.data.Attributes]

Delete(r, key) ==
    [r EXCEPT !.data.Attributes = MapDel(@, key), !.dirty = TRUE]

Clear(r) == [r EXCEPT !.data.Attributes = EmptyMap, !.dirty = TRUE]

\* The category of AddFlash and GetFlashes: "default" unless the first of the
\* variadic arguments is a non-empty name.
FlashCategory(category) ==
    IF Len(category) > 0 /\ category[1] # "" THEN category[1] ELSE "default"

AddFlash(r, message, cat) ==
    [r EXCEPT !.data.FlashData =
                  MapPut(@, cat, IF cat \in DOMAIN @ THEN Append(@[cat], message)
                                 ELSE <<message>>),
              !.data.FlashNil = FALSE,
              !.dirty = TRUE]

\* A variant of GetFlashes that leaves the messages in the record.
GetFlashesKeeps(r, cat) ==
    [messages |-> IF cat \in DOMAIN r.data.FlashData THEN r.data.FlashData[cat]
                  ELSE <<>>,
     rec |-> [r EXCEPT !.dirty = TRUE]]

\* GetFlashes: [messages, rec].  A record whose FlashData is nil is left as it
\* is.
GetFlashes(r, cat) ==
    IF r.data.FlashNil THEN [messages |-> <<>>, rec |-> r]
    ELSE [messages |-> IF cat \in DOMAIN r.data.FlashData
                       THEN r.data.FlashData[cat] ELSE <<>>,
          rec |-> [r EXCEPT !.data.FlashData = MapDel(@, cat), !.dirty = TRUE]]

\* Variants of Touch: one that also restarts the session's age, one that leaves
\* the dirty flag alone.
TouchRenews(r, t) ==
    [r EXCEPT !.data.LastAccess = t, !.data.CreatedAt = t, !.dirty = TRUE]

TouchClean(r, t) == [r EXCEPT !.data.LastAccess = t]

Touch(r, t) == [r EXCEPT !.data.LastAccess = t, !.dirty = TRUE]

\* A variant of IsExpired that expires a session at maxAge, not after it.
IsExpiredAtMaxAge(r, maxAge, t) == t - r.data.CreatedAt >= maxAge

IsExpired(r, maxAge, t) == t - r.data.CreatedAt > maxAge

\* A variant of isIdleExpired that measures from the creation of the session.
isIdleExpiredSinceCreation(r, idleTimeout, t) == t - r.data.CreatedAt > idleTimeout

isIdleExpired(r, idleTimeout, t) == t - r.data.LastAccess > idleTimeout

\* A variant of Save that clears the dirty flag although Storage.Set failed.
SaveForgets(r, opt, b, st, t, fail) ==
    IF ~r.dirty THEN [err |-> ErrNil, rec |-> r, st |-> st, set |-> FALSE]
    ELSE IF opt.EncryptionKey # NoKey /\ ~encryptOk(opt.EncryptionKey)
    THEN [err |-> ErrEncryptionFailed, rec |-> r, st |-> st, set |-> FALSE]
    ELSE LET data == encrypt(opt.EncryptionKey, Marshal(r.data))
             w == StorageSet(b, st, r.data.ID, data, opt.MaxAge, t, fail)
         IN IF ~w.ok
            THEN [err |-> ErrSaveFailed, rec |-> [r EXCEPT !.dirty = FALSE],
                  st |-> w.st, set |-> TRUE]
            ELSE [err |-> ErrNil, rec |-> [r EXCEPT !.dirty = FALSE],
                  st |-> w.st, set |-> TRUE]

\* A variant of Save that leaves the entry another record wrote under the ID.
SaveFirstWins(r, opt, b, st, t, fail) ==
    IF ~r.dirty THEN [err |-> ErrNil, rec |-> r, st |-> st, set |-> FALSE]
    ELSE IF opt.EncryptionKey # NoKey /\ ~encryptOk(opt.EncryptionKey)
    THEN [err |-> ErrEncryptionFailed, rec |-> r, st |-> st, set |-> FALSE]
    ELSE LET data == encrypt(opt.EncryptionKey, Marshal(r.data))
             w == StorageSet(b, st, r.data.ID, data, opt.MaxAge, t, fail)
         IN IF ~w.ok
            THEN [err |-> ErrSaveFailed, rec |-> r, st |-> w.st, set |-> TRUE]
            ELSE [err |-> ErrNil, rec |-> [r EXCEPT !.dirty = FALSE],
                  st |-> IF r.data.ID \in DOMAIN st THEN st ELSE w.st,
                  set |-> TRUE]

\* Save: [err, rec, st, set], set telling whether Storage.Set was called.
Save(r, opt, b, st, t, fail) ==
    IF ~r.dirty THEN [err |-> ErrNil, rec |-> r, st |-> st, set |-> FALSE]
    ELSE IF opt.EncryptionKey # NoKey /\ ~encryptOk(opt.EncryptionKey)
    THEN [err |-> ErrEncryptionFailed, rec |-> r, st |-> st, set |-> FALSE]
    ELSE LET data == encrypt(opt.EncryptionKey, Marshal(r.data))
             w == StorageSet(b, st, r.data.ID, data, opt.MaxAge, t, fail)
         IN IF ~w.ok
            THEN [err |-> ErrSaveFailed, rec |-> r, st |-> w.st, set |-> TRUE]
            ELSE [err |-> ErrNil, rec |-> [r EXCEPT !.dirty = FALSE],
                  st |-> w.st, set |-> TRUE]

\* A variant of Destroy that clears the record before it knows that
\* Storage.Delete succeeded.
DestroyClearsFirst(r, b, st, fail) ==
    LET d == StorageDelete(b, st, r.data.ID, fail)
        cleared == [r EXCEPT !.data.Attributes = EmptyMap,
                             !.data.FlashData = EmptyMap,
                             !.data.FlashNil = FALSE,
                             !.dirty = FALSE]
    IN IF ~d.ok THEN [err |-> ErrDestroyFailed, rec |-> cleared, st |-> d.st]
       ELSE [err |-> ErrNil, rec |-> cleared, st |-> d.st]

\* Destroy: [err, rec, st].
Destroy(r, b, st, fail) ==
    LET d == StorageDelete(b, st, r.data.ID, fail)
    IN IF ~d.ok THEN [err |-> ErrDestroyFailed, rec |-> r, st |-> d.st]
       ELSE [err |-> ErrNil,
             rec |-> [r EXCEPT !.data.Attributes = EmptyMap,
                               !.data.FlashData = EmptyMap,
                               !.data.FlashNil = FALSE,
                               !.dirty = FALSE],
             st |-> d.st]

\* ----------------------------------------------------------------- manager
NoSetCookie == "none"

\* A variant of NewSession that writes the cookie only after a successful Save.
NewSessionSaveFirst(id, opt, b, st, t, fail) ==
    LET r == [data |-> [ID |-> id, Attributes |-> EmptyMap, FlashData |-> EmptyMap,
                        FlashNil |-> FALSE, CreatedAt |-> t, LastAccess |-> t],
              dirty |-> TRUE]
        sv == Save(r, opt, b, st, t, fail)
    IN [err |-> sv.err, rec |-> IF sv.err = ErrNil THEN sv.rec ELSE NoRec,
        st |-> sv.st,
        setCookie |-> IF sv.err = ErrNil THEN "issue" ELSE NoSetCookie,
        set |-> sv.set]

\* A variant of NewSession that leaves the first Save to the caller.
NewSessionUnsaved(id, opt, b, st, t, fail) ==
    [err |-> ErrNil,
     rec |-> [data |-> [ID |-> id, Attributes |-> EmptyMap, FlashData |-> EmptyMap,
                        FlashNil |-> FALSE, CreatedAt |-> t, LastAccess |-> t],
              dirty |-> TRUE],
     st |-> st, setCookie |-> "issue", set |-> FALSE]

\* NewSession with the generated ID: [err, rec, st, setCookie, set].  The cookie
\* is written before the immediate Save.
NewSession(id, opt, b, st, t, fail) ==
    LET r == [data |-> [ID |-> id, Attributes |-> EmptyMap, FlashData |-> EmptyMap,
                        FlashNil |-> FALSE, CreatedAt |-> t, LastAccess |-> t],
              dirty |-> TRUE]
        sv == Save(r, opt, b, st, t, fail)
    IN [err |-> sv.err, rec |-> IF sv.err = ErrNil THEN sv.rec ELSE NoRec,
        st |-> sv.st, setCookie |-> "issue", set |-> sv.set]

\* A variant of GetSessionLoad that reports a payload it cannot decrypt as a
\* session that is not there.
GetSessionLoadMasking(c, opt, b, st, t, fail) ==
    IF ~c.has \/ c.val = EmptyValue
    THEN [err |-> ErrSessionNotFound, rec |-> NoRec, st |-> st,
          got |-> "none", seen |-> Garbage]
    ELSE LET g == StorageGet(b, st, c.val, t, fail)
             out(e, r) == [err |-> e, rec |-> r, st |-> g.st,
                           got |-> g.res, seen |-> g.data]
         IN IF g.res = "error" THEN out(ErrStorage, NoRec)
            ELSE IF g.res = "absent" THEN out(ErrSessionNotFound, NoRec)
            ELSE IF opt.EncryptionKey # NoKey /\ ~decryptOk(opt.EncryptionKey, g.data)
            THEN out(ErrSessionNotFound, NoRec)
            ELSE LET plain == IF opt.EncryptionKey # NoKey
                              THEN decrypt(opt.EncryptionKey, g.data) ELSE g.data
                 IN IF ~UnmarshalOk(plain) THEN out(ErrInvalidSession, NoRec)
                    ELSE out(ErrNil, [data |-> Unmarshal(plain), dirty |-> FALSE])

\* A variant of GetSessionLoad that takes a payload it cannot decrypt for
\* plaintext.
GetSessionLoadFallback(c, opt, b, st, t, fail) ==
    IF ~c.has \/ c.val = EmptyValue
    THEN [err |-> ErrSessionNotFound, rec |-> NoRec, st |-> st,
          got |-> "none", seen |-> Garbage]
    ELSE LET g == StorageGet(b, st, c.val, t, fail)
             out(e, r) == [err |-> e, rec |-> r, st |-> g.st,
                           got |-> g.res, seen |-> g.data]
         IN IF g.res = "error" THEN out(ErrStorage, NoRec)
            ELSE IF g.res = "absent" THEN out(ErrSessionNotFound, NoRec)
            ELSE LET plain == IF opt.EncryptionKey # NoKey
                                 /\ decryptOk(opt.EncryptionKey, g.data)
                              THEN decrypt(opt.EncryptionKey, g.data) ELSE g.data
                 IN IF ~UnmarshalOk(plain) THEN out(ErrInvalidSession, NoRec)
                    ELSE out(ErrNil, [data |-> Unmarshal(plain), dirty |-> FALSE])

\* GetSession up to the deserialized payload: the cookie, Storage.Get, decrypt,
\* json.Unmarshal.  [err, rec, st, got, seen].
GetSessionLoad(c, opt, b, st, t, fail) ==
    IF ~c.has \/ c.val = EmptyValue
    THEN [err |-> ErrSessionNotFound, rec |-> NoRec, st |-> st,
          got |-> "none", seen |-> Garbage]
    ELSE LET g == StorageGet(b, st, c.val, t, fail)
             out(e, r) == [err |-> e, rec |-> r, st |-> g.st,
                           got |-> g.res, seen |-> g.data]
         IN IF g.res = "error" THEN out(ErrStorage, NoRec)
            ELSE IF g.res = "absent" THEN out(ErrSessionNotFound, NoRec)
            ELSE IF opt.EncryptionKey # NoKey /\ ~decryptOk(opt.EncryptionKey, g.data)
            THEN out(ErrDecryptionFailed, NoRec)
            ELSE LET plain == IF opt.EncryptionKey # NoKey
                              THEN decrypt(opt.EncryptionKey, g.data) ELSE g.data
                 IN IF ~UnmarshalOk(plain) THEN out(ErrInvalidSession, NoRec)
                    ELSE out(ErrNil, [data |-> Unmarshal(plain), dirty |-> FALSE])

\* GetSession from the expiry check on: destroy an expired session, touch a
\* live one.  [err, rec, st].
GetSessionCheck(r, opt, b, st, t, fail) ==
    IF IsExpired(r, opt.MaxAge, t) \/ isIdleExpired(r, opt.IdleTimeout, t)
    THEN [err |-> ErrSessionNotFound, rec |-> NoRec,
          st |-> Destroy(r, b, st, fail).st]
    ELSE [err |-> ErrNil, rec |-> Touch(r, t), st |-> st]

\* ------------------------------------------------------------------- state
VARIABLES
    now,        \* the clock
    options,    \* the manager's Options
    backend,    \* the Storage implementation the manager was given
    store,      \* the storage's entries
    rec,        \* the session records, by slot
    pc,         \* where each slot's manager call stands
    call,       \* the manager call a slot is in, and what it observed
    nextId,     \* the next ID generateSessionID returns
    ret,        \* what the step just taken returned to its caller
    saved,      \* per ID, the record its last successful Storage.Set serialized
    born,       \* when NewSession created each ID
    destroyed,  \* the IDs a Destroy has succeeded for
    lastLoad,   \* when each ID was last created or successfully loaded
    touched,    \* when each slot's record was created, loaded or touched last
    mw,         \* the request the session middleware is serving
    gc,         \* the manager's GC fields, its tickers, channels and loop goroutines
    sto,        \* the last call a client made on the Storage, and what it set
    fl,         \* the last flash call on a record, and the messages it is owed
    cx,         \* the last encrypt and the last decrypt call on payload bytes
    rt,         \* the last handler the router built, and the request it served
    lk,         \* the RWMutex of the MemoryStorage and the goroutines calling it
    tm,         \* the request the timeout middleware is serving
    mu          \* the goroutines calling the methods of one record, under s.mu

vars ==
    <<now, options, backend, store, rec, pc, call, nextId, ret, saved, born,
      destroyed, lastLoad, touched, mw, gc, sto, fl, cx,
      rt, lk, tm, mu>>

config == <<options, backend>>

\* What is known of a payload's origin: the record as it was in memory when it was
\* serialized, and when that record had been created, loaded or touched last.
NoSaved == [data |-> NoData, touched |-> 0]

NoCall ==
    [op |-> "none", cookie |-> NoCookie, getErr |-> ErrNil, stale |-> FALSE,
     orig |-> NoSaved]

NoRet ==
    [op |-> "none", err |-> ErrNil, slot |-> 0, cookie |-> NoCookie,
     got |-> "none", seen |-> Garbage, setCookie |-> NoSetCookie, set |-> FALSE,
     decoded |-> FALSE, stale |-> FALSE, orig |-> NoSaved, created |-> FALSE,
     getErr |-> ErrNil]

\* The request before the one being served, as the client saw it.
NoPrev ==
    [path |-> "none", cookieless |-> FALSE, issued |-> EmptyValue, ok |-> FALSE,
     time |-> 0]

\* The request SessionMiddleware.ServeHTTP is serving: its cookie and path, the
\* slot of the session the middleware resolved (sess, 0 for nil) and of the one
\* the handler works on (hsess), the cookie NewSession issued, what the
\* middleware logged, and what the handler read.
NoRequest ==
    [pc |-> "idle", cookie |-> NoCookie, path |-> "none", sess |-> 0, hsess |-> 0,
     issued |-> EmptyValue, log |-> {}, read |-> Get(NoRec, "k"),
     flashes |-> <<>>, prev |-> NoPrev]

\* The GC side of a new manager: gcRunning false, gcTicker nil (0), gcStop the
\* channel NewManager made (0), no loop goroutine; which channels are closed,
\* which tickers are stopped or hold a tick in their channel; whether a logger
\* is set and whether the last Cleanup of the loop logged; whether the last
\* StartGC or StopGC returned at its guard.
NoGC ==
    [running |-> FALSE, ticker |-> 0, stop |-> 0, closed |-> {}, stopped |-> {},
     pending |-> {}, loops |-> <<>>, logger |-> TRUE, logged |-> FALSE,
     noop |-> FALSE]

\* No call on the Storage yet.  Of a call: the method, the ID, whether the
\* statement of the backend failed, the error (ok), the result of Get and of
\* Exists, and whether it repeats the call made right before it (again); set:
\* for every ID the data, the TTL and the instant of the last Set that
\* succeeded and that no Delete undid.
NoStorageCall ==
    [op |-> "none", id |-> EmptyValue, fail |-> FALSE, ok |-> TRUE,
     res |-> "absent", data |-> Garbage, exists |-> FALSE, again |-> FALSE,
     set |-> EmptyMap]

\* The call op(id) comes right after the same call, which returned no error.
Repeats(c, op, id) == c.op = op /\ c.id = id /\ c.ok

\* The category arguments of AddFlash and GetFlashes (category ...string): none,
\* the empty string, or a name; the messages a handler adds.
CategoryArgs == {<<>>, <<"">>, <<"default">>, <<"error">>}
FlashCategories == {"default", "error"}
FlashMsgs == {[t |-> "string", v |-> "m1"], [t |-> "string", v |-> "m2"]}

\* The attribute keys a handler uses when it works on the record alone.
AttrKeys == {"k", "j"}

\* No method called on a record yet.  Of a call: the method, its key, value and
\* category arguments, what it returned (got), whether the record was clean
\* and whether the key was absent when it was made; owed: for every category
\* the messages added and not yet handed out, in the order of their AddFlash
\* calls; due: what was owed to the category of the call when it was made.
NoFlashCall ==
    [op |-> "none", category |-> <<>>, got |-> <<>>, due |-> <<>>,
     key |-> "", value |-> [t |-> "nil", v |-> ""], clean |-> FALSE,
     absent |-> FALSE, owed |-> [c \in FlashCategories |-> <<>>]]

\* No encrypt or decrypt called yet.  Of the last encrypt: the plaintext, the
\* nonce it read, what it returned (out, err); of the last decrypt: its input
\* and what it returned (res, derr).
NoCodecCall ==
    [op |-> "none", plain |-> <<>>, nonce |-> <<>>, out |-> <<>>, err |-> ErrNil,
     input |-> <<>>, res |-> <<>>, derr |-> ErrNil]

\* No handler built yet.  Of the last WithNamedMiddlewares: its two lists and
\* the handler it returned; ran: the middlewares in the order in which the
\* handler ran them for the last request.
NoRouterCall ==
    [op |-> "none", namedMiddlewares |-> <<>>, overrides |-> <<>>,
     handler |-> <<>>, ran |-> <<>>]

\* How many goroutines call the MemoryStorage at a time.
MaxGoroutines == 2
Goroutines == 1..MaxGoroutines

\* The RWMutex of a new MemoryStorage, and goroutines that are in no call.
\* readers: the goroutines that hold the read lock; writer: the goroutine that
\* holds the write lock (0: none); of a goroutine: the method it is in, its
\* arguments, and where it stands (out, waiting for the lock, holding it with
\* the body still to run, body done).
NoLock ==
    [readers |-> {}, writer |-> 0,
     g |-> [i \in Goroutines |-> [pc |-> "out", op |-> "none", id |-> EmptyValue]]]

\* No request in the timeout middleware.
\* No goroutine is inside a method of the record.
NoMutex ==
    [i \in Goroutines |-> [pc |-> "out", op |-> "none", data |-> Garbage]]

\* The ResponseWriter of a request: the Content-Type of its header map, the
\* status it sent (0: none yet) and who wrote each piece of its body.
NoResponse == [contentType |-> "", status |-> 0, body |-> <<>>]

\* No request in the timeout middleware.  h is the handler goroutine, fired
\* the context's deadline; racing and late record whether the handler used w
\* during or after the timeout response.
NoTimeoutRequest ==
    [pc |-> "idle", h |-> "none", fired |-> FALSE, panicValue |-> FALSE,
     logger |-> FALSE, logged |-> 0, w |-> NoResponse, via |-> "none",
     racing |-> FALSE, late |-> FALSE]

\* Options with MaxAge and one of the given idle timeouts.
SessionOptions(idles) ==
    [MaxAge : {CfgMaxAge * TicksPerSecond}, IdleTimeout : idles,
     EncryptionKey : EncryptionKeys]

\* A new manager over an empty storage, nothing called yet.
InitState ==
    /\ now = 0
    /\ backend \in Backends
    /\ store = EmptyMap
    /\ rec = [s \in Slots |-> NoRec]
    /\ pc = [s \in Slots |-> "free"]
    /\ call = [s \in Slots |-> NoCall]
    /\ nextId = 1
    /\ ret = NoRet
    /\ saved = EmptyMap
    /\ born = EmptyMap
    /\ destroyed = {}
    /\ lastLoad = EmptyMap
    /\ touched = [s \in Slots |-> 0]
    /\ mw = NoRequest
    /\ fl = NoFlashCall
    /\ cx = NoCodecCall
    /\ rt = NoRouterCall
    /\ lk = NoLock
    /\ tm = NoTimeoutRequest
    /\ mu = NoMutex

InitSession ==
    /\ options \in SessionOptions({CfgIdleTimeout * TicksPerSecond})
    /\ InitState

Init ==
    /\ InitSession
    /\ gc = NoGC
    /\ sto = NoStorageCall

\* A storage that no manager encrypts payloads for.
InitStore ==
    /\ Init
    /\ options.EncryptionKey = NoKey

\* A new manager with or without a logger, its payloads not encrypted.
InitGC ==
    /\ InitSession
    /\ options.EncryptionKey = NoKey
    /\ gc \in {[NoGC EXCEPT !.logger = l] : l \in BOOLEAN}
    /\ sto = NoStorageCall

\* ----------------------------------------------------------------- actions
Tick ==
    /\ now < MaxTime
    /\ now' = now + TicksPerSecond
    /\ ret' = NoRet
    /\ UNCHANGED <<config, gc, sto, fl, cx, rt, lk, tm, mu, store, rec, pc, call, nextId, saved,
                   born, destroyed, lastLoad, touched, mw>>

\* Another client of the shared storage sets an entry to bytes that are neither
\* a ciphertext of the manager's key nor a JSON document, under an ID that was
\* issued or under one that never is (the random IDs to come are not guessed).
StorageTamper(id) ==
    /\ id \in IDs => id < nextId
    /\ id \in DOMAIN store => store[id].data # Garbage
    /\ store' = StorageSet(backend, store, id, Garbage, options.MaxAge, now, FALSE).st
    /\ ret' = NoRet
    /\ UNCHANGED <<now, config, gc, sto, fl, cx, rt, lk, tm, mu, rec, pc, call, nextId, saved, born,
                   destroyed, lastLoad, touched, mw>>

\* What another client may leave under an ID: bytes that are nothing, the
\* plain JSON document of a session of that ID, and that document sealed.
PlantedRecord(id) ==
    [ID |-> id, Attributes |-> MapPut(EmptyMap, "k", [t |-> "string", v |-> "v"]),
     FlashData |-> EmptyMap, FlashNil |-> FALSE, CreatedAt |-> now,
     LastAccess |-> now]

PlantedPayloads(id) ==
    {Garbage, Marshal(PlantedRecord(id)), encrypt(GoodKey, Marshal(PlantedRecord(id)))}

\* The JSON document of a session without flash data ("flash_data": null, or no
\* such member), as another writer of the table may leave it.
PayloadWithoutFlash(id) == Marshal([PlantedRecord(id) EXCEPT !.FlashNil = TRUE])

\* Another client of the storage leaves a document without flash data.
StoragePlantWithoutFlash(id) ==
    /\ id < nextId
    /\ id \in DOMAIN store => store[id].data # PayloadWithoutFlash(id)
    /\ store' = StorageSet(backend, store, id, PayloadWithoutFlash(id),
                           options.MaxAge, now, FALSE).st
    /\ ret' = NoRet
    /\ UNCHANGED <<now, config, gc, sto, fl, cx, rt, lk, tm, mu, rec, pc, call, nextId, saved, born,
                   destroyed, lastLoad, touched, mw>>

\* Another client of the storage replaces the entry of an ID.
StoragePlant(id) ==
    /\ id < nextId
    /\ \E data \in PlantedPayloads(id) :
          /\ id \in DOMAIN store => store[id].data # data
          /\ store' = StorageSet(backend, store, id, data, options.MaxAge, now,
                                 FALSE).st
    /\ ret' = NoRet
    /\ UNCHANGED <<now, config, gc, sto, fl, cx, rt, lk, tm, mu, rec, pc, call, nextId, saved, born,
                   destroyed, lastLoad, touched, mw>>

\* One run of Storage.Cleanup (a tick of the GC loop).
Cleanup ==
    /\ \E fail \in CanFail(backend) :
           store' = StorageCleanup(backend, store, now, fail).st
    /\ ret' = NoRet
    /\ UNCHANGED <<now, config, gc, sto, fl, cx, rt, lk, tm, mu, rec, pc, call, nextId, saved, born,
                   destroyed, lastLoad, touched, mw>>

\* NewSession in slot s on behalf of call o (NewSession itself, or
\* GetOrCreateSession after a failed GetSession).  generateSessionID: rand.Read may
\* report an error (with a replaced rand.Reader), before any cookie is written.
RunNewSession(s, o, getErr) ==
    /\ nextId \in IDs
    /\ \E randOk \in BOOLEAN, fail \in CanFail(backend) :
          IF ~randOk
          THEN /\ ret' = [NoRet EXCEPT !.op = o, !.err = ErrRandom,
                                       !.created = TRUE, !.getErr = getErr]
               /\ rec' = [rec EXCEPT ![s] = NoRec]
               /\ pc' = [pc EXCEPT ![s] = "free"]
               /\ UNCHANGED <<store, nextId, saved, born, lastLoad, touched>>
          ELSE LET n == NewSession(nextId, options, backend, store, now, fail)
               IN /\ store' = n.st
                  /\ nextId' = nextId + 1
                  /\ born' = MapPut(born, nextId, now)
                  /\ ret' = [NoRet EXCEPT !.op = o, !.err = n.err,
                                          !.slot = IF n.err = ErrNil THEN s ELSE 0,
                                          !.cookie = Cookie(nextId),
                                          !.setCookie = n.setCookie, !.set = n.set,
                                          !.created = TRUE, !.getErr = getErr]
                  /\ rec' = [rec EXCEPT ![s] = n.rec]
                  /\ pc' = [pc EXCEPT ![s] = IF n.err = ErrNil THEN "held" ELSE "free"]
                  /\ IF n.err = ErrNil
                     THEN /\ saved' = MapPut(saved, nextId,
                                             [data |-> n.rec.data, touched |-> now])
                          /\ lastLoad' = MapPut(lastLoad, nextId, now)
                          /\ touched' = [touched EXCEPT ![s] = now]
                     ELSE UNCHANGED <<saved, lastLoad, touched>>
    /\ call' = [call EXCEPT ![s] = NoCall]
    /\ UNCHANGED <<now, config, gc, sto, fl, cx, rt, lk, tm, mu, destroyed>>

CallNewSession(s) ==
    /\ pc[s] = "free"
    /\ RunNewSession(s, "NewSession", ErrNil)
    /\ UNCHANGED mw

Resolvers == {"GetSession", "DestroySession", "GetOrCreateSession"}

\* The first half of GetSession, called for itself, by DestroySession or by
\* GetOrCreateSession, with request cookie c.
GetSessionBegin(s, c, o) ==
    /\ pc[s] = "free"
    /\ \E fail \in CanFail(backend) :
          LET ld == GetSessionLoad(c, options, backend, store, now, fail)
          IN /\ store' = ld.st
             /\ IF ld.err = ErrNil
                THEN /\ rec' = [rec EXCEPT ![s] = ld.rec]
                     /\ pc' = [pc EXCEPT ![s] = "loaded"]
                     /\ call' = [call EXCEPT ![s] =
                                     [op |-> o, cookie |-> c, getErr |-> ErrNil,
                                      stale |-> c.val \in destroyed,
                                      orig |-> IF c.val \in DOMAIN saved
                                               THEN saved[c.val] ELSE NoSaved]]
                     /\ ret' = NoRet
                ELSE IF o = "GetOrCreateSession"
                THEN /\ pc' = [pc EXCEPT ![s] = "creating"]
                     /\ call' = [call EXCEPT ![s] =
                                     [NoCall EXCEPT !.op = o, !.cookie = c,
                                                    !.getErr = ld.err]]
                     /\ ret' = NoRet
                     /\ UNCHANGED rec
                ELSE /\ ret' = [NoRet EXCEPT !.op = o, !.err = ld.err, !.cookie = c,
                                             !.got = ld.got, !.seen = ld.seen]
                     /\ UNCHANGED <<rec, pc, call>>
    /\ UNCHANGED <<now, config, gc, sto, fl, cx, rt, lk, tm, mu, nextId, saved, born, destroyed,
                   lastLoad, touched>>

BeginResolve(s, c, o) ==
    /\ GetSessionBegin(s, c, o)
    /\ UNCHANGED mw

\* The second half of GetSession: the expiry check, then Destroy or Touch.
GetSessionEnd(s) ==
    /\ pc[s] = "loaded"
    /\ \E fail \in CanFail(backend) :
          LET ch == GetSessionCheck(rec[s], options, backend, store, now, fail)
              o == call[s].op
              out == [NoRet EXCEPT !.op = o, !.err = ch.err,
                                   !.cookie = call[s].cookie, !.got = "data",
                                   !.decoded = TRUE,
                                   !.stale = call[s].stale, !.orig = call[s].orig]
          IN /\ store' = ch.st
             /\ rec' = [rec EXCEPT ![s] = ch.rec]
             /\ IF ch.err = ErrNil
                THEN /\ lastLoad' = MapPut(lastLoad, rec[s].data.ID, now)
                     /\ touched' = [touched EXCEPT ![s] = now]
                     /\ IF o = "DestroySession"
                        THEN /\ pc' = [pc EXCEPT ![s] = "resolved"]
                             /\ ret' = NoRet
                             /\ UNCHANGED call
                        ELSE /\ pc' = [pc EXCEPT ![s] = "held"]
                             /\ ret' = [out EXCEPT !.slot = s]
                             /\ call' = [call EXCEPT ![s] = NoCall]
                ELSE /\ UNCHANGED <<lastLoad, touched>>
                     /\ IF o = "GetOrCreateSession"
                        THEN /\ pc' = [pc EXCEPT ![s] = "creating"]
                             /\ ret' = NoRet
                             /\ call' = [call EXCEPT ![s] =
                                             [NoCall EXCEPT !.op = o,
                                                            !.cookie = call[s].cookie,
                                                            !.getErr = ch.err]]
                        ELSE /\ pc' = [pc EXCEPT ![s] = "free"]
                             /\ ret' = out
                             /\ call' = [call EXCEPT ![s] = NoCall]
    /\ UNCHANGED <<now, config, gc, sto, fl, cx, rt, lk, tm, mu, nextId, saved, born, destroyed>>

FinishResolve(s) ==
    /\ GetSessionEnd(s)
    /\ UNCHANGED mw

\* GetOrCreateSession after GetSession returned an error: NewSession.
GetOrCreateNew(s) ==
    /\ pc[s] = "creating"
    /\ RunNewSession(s, "GetOrCreateSession", call[s].getErr)
    /\ UNCHANGED mw

\* DestroySession after GetSession returned the session: the cookie with
\* Max-Age=-1, then Session.Destroy.  The record is not handed to the caller.
DestroySessionFinish(s) ==
    /\ pc[s] = "resolved"
    /\ \E fail \in CanFail(backend) :
          LET d == Destroy(rec[s], backend, store, fail)
          IN /\ store' = d.st
             /\ destroyed' = IF d.err = ErrNil
                              THEN destroyed \cup {rec[s].data.ID} ELSE destroyed
             /\ ret' = [NoRet EXCEPT !.op = "DestroySession", !.err = d.err,
                                     !.cookie = call[s].cookie,
                                     !.setCookie = "expire"]
    /\ rec' = [rec EXCEPT ![s] = NoRec]
    /\ pc' = [pc EXCEPT ![s] = "free"]
    /\ call' = [call EXCEPT ![s] = NoCall]
    /\ touched' = [touched EXCEPT ![s] = 0]
    /\ UNCHANGED <<now, config, gc, sto, fl, cx, rt, lk, tm, mu, nextId, saved, born, lastLoad, mw>>

\* A method of the record in slot s that changes only the record.
Mutate(s, r) ==
    /\ pc[s] = "held"
    /\ rec' = [rec EXCEPT ![s] = r]
    /\ ret' = NoRet
    /\ UNCHANGED <<now, config, gc, sto, fl, cx, rt, lk, tm, mu, store, pc, call, nextId, saved,
                   born, destroyed, lastLoad>>

CallSet(s) ==
    /\ \E k \in Keys, v \in Vals : Mutate(s, Set(rec[s], k, v))
    /\ UNCHANGED <<touched, mw>>

CallDelete(s) ==
    /\ \E k \in Keys : Mutate(s, Delete(rec[s], k))
    /\ UNCHANGED <<touched, mw>>

CallClear(s) ==
    /\ Mutate(s, Clear(rec[s]))
    /\ UNCHANGED <<touched, mw>>

CallAddFlash(s) ==
    /\ \E m \in Msgs, c \in Categories :
          /\ c \in DOMAIN rec[s].data.FlashData
                => Len(rec[s].data.FlashData[c]) < MaxFlash
          /\ Mutate(s, AddFlash(rec[s], m, c))
    /\ UNCHANGED <<touched, mw>>

CallGetFlashes(s) ==
    /\ \E c \in Categories : Mutate(s, GetFlashes(rec[s], c).rec)
    /\ UNCHANGED <<touched, mw>>

CallTouch(s) ==
    /\ Mutate(s, Touch(rec[s], now))
    /\ touched' = [touched EXCEPT ![s] = now]
    /\ UNCHANGED mw

RunSave(s) ==
    /\ pc[s] = "held"
    /\ \E fail \in CanFail(backend) :
          LET sv == Save(rec[s], options, backend, store, now, fail)
          IN /\ rec' = [rec EXCEPT ![s] = sv.rec]
             /\ store' = sv.st
             /\ saved' = IF sv.set /\ sv.err = ErrNil
                          THEN MapPut(saved, rec[s].data.ID,
                                      [data |-> rec[s].data, touched |-> touched[s]])
                          ELSE saved
             /\ ret' = [NoRet EXCEPT !.op = "Save", !.err = sv.err, !.slot = s,
                                     !.set = sv.set]
    /\ UNCHANGED <<now, config, gc, sto, fl, cx, rt, lk, tm, mu, pc, call, nextId, born, destroyed,
                   lastLoad, touched>>

CallSave(s) ==
    /\ RunSave(s)
    /\ UNCHANGED mw

CallDestroy(s) ==
    /\ pc[s] = "held"
    /\ \E fail \in CanFail(backend) :
          LET d == Destroy(rec[s], backend, store, fail)
          IN /\ rec' = [rec EXCEPT ![s] = d.rec]
             /\ store' = d.st
             /\ destroyed' = IF d.err = ErrNil
                              THEN destroyed \cup {rec[s].data.ID} ELSE destroyed
             /\ ret' = [NoRet EXCEPT !.op = "Destroy", !.err = d.err, !.slot = s]
    /\ UNCHANGED <<now, config, gc, sto, fl, cx, rt, lk, tm, mu, pc, call, nextId, saved, born,
                   lastLoad, touched, mw>>

\* The request holding the record ends; the record is garbage.
Release(s) ==
    /\ pc[s] = "held"
    /\ rec' = [rec EXCEPT ![s] = NoRec]
    /\ pc' = [pc EXCEPT ![s] = "free"]
    /\ touched' = [touched EXCEPT ![s] = 0]
    /\ ret' = NoRet
    /\ UNCHANGED <<now, config, gc, sto, fl, cx, rt, lk, tm, mu, store, call, nextId, saved, born,
                   destroyed, lastLoad, mw>>

FirstSlot == CHOOSE s \in Slots : \A t \in Slots : s <= t

\* ------------------------------------------------- the session middleware
\* One request at a time through SessionMiddleware wrapping the handler of the
\* session_management example: GetOrCreateSession, then on /set Set and AddFlash,
\* on /get Get and GetFlashes.
MwSlot == FirstSlot
HandlerSlot == CHOOSE s \in Slots : s # MwSlot
Paths == {"set", "get"}
HandlerKey == CHOOSE k \in Keys : TRUE
HandlerValue == CHOOSE v \in Vals : v.t = "string"
HandlerMessage == CHOOSE m \in Msgs : TRUE
HandlerCategory == CHOOSE c \in Categories : TRUE

\* ServeHTTP: sm.manager.GetSession, up to the deserialized payload.
ServeHTTPBegin(c, path) ==
    /\ mw.pc = "idle"
    /\ GetSessionBegin(MwSlot, c, "GetSession")
    /\ mw' = [mw EXCEPT !.pc = IF pc'[MwSlot] = "loaded" THEN "resolving" ELSE "next",
                        !.cookie = c, !.path = path,
                        !.log = IF ret'.err = ErrSessionNotFound
                                THEN {"Failed to get session"} ELSE {}]

\* ServeHTTP: the rest of sm.manager.GetSession, and the session into the context.
ServeHTTPResolve ==
    /\ mw.pc = "resolving"
    /\ GetSessionEnd(MwSlot)
    /\ mw' = [mw EXCEPT !.pc = "next",
                        !.sess = IF ret'.err = ErrNil THEN MwSlot ELSE 0,
                        !.log = IF ret'.err = ErrSessionNotFound
                                THEN {"Failed to get session"} ELSE {}]

\* GetOrCreateSession: the session of the context, when there is one.
HandlerFromContext ==
    /\ mw.pc = "next"
    /\ mw.sess # 0
    /\ mw' = [mw EXCEPT !.pc = "body", !.hsess = mw.sess]
    /\ ret' = [NoRet EXCEPT !.op = "GetOrCreateSession", !.slot = mw.sess,
                            !.cookie = mw.cookie]
    /\ UNCHANGED <<now, config, gc, sto, fl, cx, rt, lk, tm, mu, store, rec, pc, call, nextId, saved,
                   born, destroyed, lastLoad, touched>>

\* GetOrCreateSession: manager.GetSession on the request.
HandlerGetSession ==
    /\ mw.pc = "next"
    /\ mw.sess = 0
    /\ GetSessionBegin(HandlerSlot, mw.cookie, "GetOrCreateSession")
    /\ mw' = [mw EXCEPT !.pc = "getOrCreate"]

HandlerResolve ==
    /\ mw.pc = "getOrCreate"
    /\ GetSessionEnd(HandlerSlot)
    /\ mw' = [mw EXCEPT !.pc = IF pc'[HandlerSlot] = "held" THEN "body" ELSE @,
                        !.hsess = IF pc'[HandlerSlot] = "held" THEN HandlerSlot ELSE 0]

\* GetOrCreateSession: manager.NewSession; on an error the handler answers 500.
HandlerNewSession ==
    /\ mw.pc = "getOrCreate"
    /\ pc[HandlerSlot] = "creating"
    /\ RunNewSession(HandlerSlot, "GetOrCreateSession", call[HandlerSlot].getErr)
    /\ mw' = [mw EXCEPT !.pc = IF ret'.err = ErrNil THEN "body" ELSE "after",
                        !.hsess = IF ret'.err = ErrNil THEN HandlerSlot ELSE 0,
                        !.issued = IF ret'.setCookie = "issue"
                                   THEN ret'.cookie.val ELSE EmptyValue]

\* The handler on /set: sess.Set and sess.AddFlash.
HandlerSetPath ==
    /\ mw.pc = "body"
    /\ mw.path = "set"
    /\ LET r == rec[mw.hsess]
       IN /\ HandlerCategory \in DOMAIN r.data.FlashData
                => Len(r.data.FlashData[HandlerCategory]) < MaxFlash
          /\ Mutate(mw.hsess, AddFlash(Set(r, HandlerKey, HandlerValue),
                                       HandlerMessage, HandlerCategory))
    /\ mw' = [mw EXCEPT !.pc = "after"]
    /\ UNCHANGED touched

\* The handler on /get: sess.Get and sess.GetFlashes.
HandlerGetPath ==
    /\ mw.pc = "body"
    /\ mw.path = "get"
    /\ LET r == rec[mw.hsess]
           f == GetFlashes(r, HandlerCategory)
       IN /\ Mutate(mw.hsess, f.rec)
          /\ mw' = [mw EXCEPT !.pc = "after", !.read = Get(r, HandlerKey),
                              !.flashes = f.messages]
    /\ UNCHANGED touched

\* A variant of ServeHTTPSave that returns without saving the session.
ServeHTTPSaveSkipped ==
    /\ mw.pc = "after"
    /\ mw' = [mw EXCEPT !.pc = "done"]
    /\ ret' = NoRet
    /\ UNCHANGED <<now, config, gc, sto, fl, cx, rt, lk, tm, mu, store, rec, pc, call,
                   nextId, saved, born, destroyed, lastLoad, touched>>

\* ServeHTTP after next.ServeHTTP: sess.Save when sess is not nil.
ServeHTTPSave ==
    /\ mw.pc = "after"
    /\ IF mw.sess # 0
       THEN /\ RunSave(mw.sess)
            /\ mw' = [mw EXCEPT !.pc = "done",
                                !.log = IF ret'.err # ErrNil
                                        THEN @ \cup {"Failed to save session"} ELSE @]
       ELSE /\ mw' = [mw EXCEPT !.pc = "done"]
            /\ ret' = NoRet
            /\ UNCHANGED <<now, config, gc, sto, fl, cx, rt, lk, tm, mu, store, rec, pc, call,
                           nextId, saved, born, destroyed, lastLoad, touched>>

\* ServeHTTP returns: the request and its records are gone.
ServeHTTPEnd ==
    /\ mw.pc = "done"
    /\ mw' = [NoRequest EXCEPT !.prev = [path |-> mw.path,
                                         cookieless |-> ~mw.cookie.has,
                                         issued |-> mw.issued,
                                         ok |-> mw.hsess # 0,
                                         time |-> now]]
    /\ rec' = [s \in Slots |-> NoRec]
    /\ pc' = [s \in Slots |-> "free"]
    /\ call' = [s \in Slots |-> NoCall]
    /\ touched' = [s \in Slots |-> 0]
    /\ ret' = NoRet
    /\ UNCHANGED <<now, config, gc, sto, fl, cx, rt, lk, tm, mu, store, nextId, saved, born, destroyed,
                   lastLoad>>

\* ---------------------------------------------------- garbage collection loop
\* A loop goroutine: where it is (about to evaluate its select, blocked in it,
\* inside Storage.Cleanup, returned) and the ticker and stop channel it read
\* from the manager's fields last.
GCLoop(tk, ch) == [pc |-> "spawned", tk |-> tk, ch |-> ch]

\* A variant of GCStart without the gcRunning guard.
GCStartAgain(g) ==
    [g EXCEPT !.ticker = Len(g.loops) + 1, !.running = TRUE, !.noop = FALSE,
              !.loops = Append(g.loops, GCLoop(Len(g.loops) + 1, g.stop))]

\* StartGC on the manager's fields: nothing while running, else a new ticker
\* and one new loop goroutine.
GCStart(g) ==
    IF g.running THEN [g EXCEPT !.noop = TRUE]
    ELSE [g EXCEPT !.ticker = Len(g.loops) + 1, !.running = TRUE, !.noop = FALSE,
                   !.loops = Append(g.loops, GCLoop(Len(g.loops) + 1, g.stop))]

\* A variant of GCStop that leaves gcRunning as it is.
GCStopKeepsRunning(g) ==
    IF ~g.running THEN [g EXCEPT !.noop = TRUE]
    ELSE [g EXCEPT !.stopped = IF g.ticker # 0 THEN @ \cup {g.ticker} ELSE @,
                   !.closed = @ \cup {g.stop},
                   !.stop = g.stop + 1,
                   !.noop = FALSE]

\* StopGC on the manager's fields: nothing while not running, else the ticker
\* is stopped, the stop channel closed and replaced by a new one.
GCStop(g) ==
    IF ~g.running THEN [g EXCEPT !.noop = TRUE]
    ELSE [g EXCEPT !.stopped = IF g.ticker # 0 THEN @ \cup {g.ticker} ELSE @,
                   !.closed = @ \cup {g.stop},
                   !.running = FALSE,
                   !.stop = g.stop + 1,
                   !.noop = FALSE]

\* A variant of GCAfterCleanup in which a failed Cleanup ends the loop.
GCAfterCleanupGivesUp(l, ok) == [l EXCEPT !.pc = IF ok THEN "spawned" ELSE "done"]

\* The loop goroutine after Storage.Cleanup returned: the next iteration of for.
GCAfterCleanup(l, ok) == [l EXCEPT !.pc = "spawned"]

GCSessionFrame ==
    UNCHANGED <<now, config, sto, fl, cx, rt, lk, tm, mu, rec, pc, call, nextId, saved, born, destroyed,
                lastLoad, touched, mw>>

\* m.mu is held by a goroutine that is inside StartGC or StopGC.  Both run to
\* their return without waiting for anything, so between two steps only a
\* goroutine that a step left inside StopGC holds it.
GCMutexFree == \A i \in DOMAIN gc.loops : gc.loops[i].pc # "locked"

StartGC ==
    /\ GCMutexFree
    /\ Len(GCStart(gc).loops) <= MaxGCStarts
    /\ gc' = GCStart(gc)
    /\ ret' = [NoRet EXCEPT !.op = "StartGC"]
    /\ UNCHANGED store
    /\ GCSessionFrame

StopGC ==
    /\ GCMutexFree
    /\ gc' = GCStop(gc)
    /\ ret' = [NoRet EXCEPT !.op = "StopGC"]
    /\ UNCHANGED store
    /\ GCSessionFrame

\* The runtime sends a tick on the channel of a ticker that is not stopped; the
\* channel holds one tick, a tick that finds it full is dropped.
TickerFire(k) ==
    /\ k \in 1..Len(gc.loops)
    /\ k \notin gc.stopped
    /\ k \notin gc.pending
    /\ gc' = [gc EXCEPT !.pending = @ \cup {k}]
    /\ ret' = NoRet
    /\ UNCHANGED store
    /\ GCSessionFrame

\* The goroutine evaluates the operands of its select: m.gcTicker.C and
\* m.gcStop, read without the mutex while StartGC and StopGC write them.  It
\* reads the value it saw last, the current one, or one written in between.
LoopSelect(i) ==
    /\ i \in DOMAIN gc.loops
    /\ gc.loops[i].pc = "spawned"
    /\ \E tk \in gc.loops[i].tk..gc.ticker, ch \in gc.loops[i].ch..gc.stop :
           gc' = [gc EXCEPT !.loops[i] = [pc |-> "waiting", tk |-> tk, ch |-> ch]]
    /\ ret' = NoRet
    /\ UNCHANGED store
    /\ GCSessionFrame

\* case <-m.gcTicker.C
LoopReceiveTick(i) ==
    /\ i \in DOMAIN gc.loops
    /\ gc.loops[i].pc = "waiting"
    /\ gc.loops[i].tk \in gc.pending
    /\ gc' = [gc EXCEPT !.pending = @ \ {gc.loops[i].tk}, !.loops[i].pc = "cleanup"]
    /\ ret' = NoRet
    /\ UNCHANGED store
    /\ GCSessionFrame

\* case <-m.gcStop: a closed channel is ready to receive from.
LoopReceiveStop(i) ==
    /\ i \in DOMAIN gc.loops
    /\ gc.loops[i].pc = "waiting"
    /\ gc.loops[i].ch \in gc.closed
    /\ gc' = [gc EXCEPT !.loops[i].pc = "done"]
    /\ ret' = NoRet
    /\ UNCHANGED store
    /\ GCSessionFrame

\* m.storage.Cleanup(ctx) in the loop, its error logged when a logger is set.
LoopCleanup(i) ==
    /\ i \in DOMAIN gc.loops
    /\ gc.loops[i].pc \in {"cleanup", "stopped"}
    /\ \E fail \in CanFail(backend) :
          LET c == StorageCleanup(backend, store, now, fail)
          IN /\ store' = c.st
             /\ gc' = [gc EXCEPT !.loops[i] = GCAfterCleanup(@, c.ok),
                                 !.logged = ~c.ok /\ gc.logger]
             /\ ret' = [NoRet EXCEPT !.op = "Cleanup",
                                     !.err = IF c.ok THEN ErrNil ELSE ErrStorage]
    /\ GCSessionFrame

\* The Storage.Cleanup that goroutine i is executing calls StopGC.
LoopCallsStopGC(i) ==
    /\ i \in DOMAIN gc.loops
    /\ gc.loops[i].pc = "cleanup"
    /\ gc' = [gc EXCEPT !.loops[i].pc = "stopgc"]
    /\ ret' = NoRet
    /\ UNCHANGED store
    /\ GCSessionFrame

\* m.mu.Lock() of that StopGC: the goroutine waits until the mutex is free.
LoopStopGCLock(i) ==
    /\ i \in DOMAIN gc.loops
    /\ gc.loops[i].pc = "stopgc"
    /\ GCMutexFree
    /\ gc' = [gc EXCEPT !.loops[i].pc = "locked"]
    /\ ret' = NoRet
    /\ UNCHANGED store
    /\ GCSessionFrame

\* The rest of that StopGC, up to its return into Cleanup.
LoopStopGCReturn(i) ==
    /\ i \in DOMAIN gc.loops
    /\ gc.loops[i].pc = "locked"
    /\ gc' = [GCStop(gc) EXCEPT !.loops[i].pc = "stopped"]
    /\ ret' = [NoRet EXCEPT !.op = "StopGC", !.got = "loop", !.slot = i]
    /\ UNCHANGED store
    /\ GCSessionFrame

LoopStep ==
    \E i \in 1..MaxGCStarts :
        LoopSelect(i) \/ LoopReceiveTick(i) \/ LoopReceiveStop(i) \/ LoopCleanup(i)

\* ------------------------------------------------- clients of the storage
\* What a client calls the Storage with directly: the IDs ("" among them), two
\* payloads, TTLs below and up to over a second and negative ones.
StorageIds == IDs \cup {EmptyValue}
Payloads == {Garbage, [kind |-> "bytes"]}
TTLs == (-1..MaxTTL) \ {0}

StorageFrame ==
    UNCHANGED <<config, gc, fl, cx, rt, lk, tm, mu, rec, pc, call, nextId, saved, born, destroyed,
                lastLoad, touched, mw>>

\* Time passes between two calls, a tick at a time, until the longest TTL
\* has passed.
Elapse ==
    /\ now <= MaxTTL
    /\ now' = now + 1
    /\ sto' = [NoStorageCall EXCEPT !.set = sto.set]
    /\ ret' = NoRet
    /\ UNCHANGED store
    /\ StorageFrame

CallStorageSet(id, data, ttl) ==
    /\ \E fail \in CanFail(backend) :
          LET r == StorageSet(backend, store, id, data, ttl, now, fail)
          IN /\ store' = r.st
             /\ sto' = [NoStorageCall EXCEPT
                          !.op = "Set", !.id = id, !.fail = fail, !.ok = r.ok,
                          !.again = Repeats(sto, "Set", id),
                          !.set = IF r.ok
                                  THEN MapPut(sto.set, id,
                                              [data |-> data, ttl |-> ttl, at |-> now])
                                  ELSE sto.set]
    /\ ret' = NoRet
    /\ UNCHANGED now
    /\ StorageFrame

CallStorageGet(id) ==
    /\ \E fail \in CanFail(backend) :
          LET r == StorageGet(backend, store, id, now, fail)
          IN /\ store' = r.st
             /\ sto' = [NoStorageCall EXCEPT
                          !.op = "Get", !.id = id, !.fail = fail,
                          !.ok = r.res # "error", !.res = r.res, !.data = r.data,
                          !.again = Repeats(sto, "Get", id), !.set = sto.set]
    /\ ret' = NoRet
    /\ UNCHANGED now
    /\ StorageFrame

CallStorageExists(id) ==
    /\ \E fail \in CanFail(backend) :
          sto' = [NoStorageCall EXCEPT
                    !.op = "Exists", !.id = id, !.fail = fail,
                    !.exists = StorageExists(backend, store, id, now, fail),
                    !.again = Repeats(sto, "Exists", id), !.set = sto.set]
    /\ ret' = NoRet
    /\ UNCHANGED <<now, store>>
    /\ StorageFrame

CallStorageDelete(id) ==
    /\ \E fail \in CanFail(backend) :
          LET r == StorageDelete(backend, store, id, fail)
          IN /\ store' = r.st
             /\ sto' = [NoStorageCall EXCEPT
                          !.op = "Delete", !.id = id, !.fail = fail, !.ok = r.ok,
                          !.again = Repeats(sto, "Delete", id),
                          !.set = IF r.ok THEN MapDel(sto.set, id) ELSE sto.set]
    /\ ret' = NoRet
    /\ UNCHANGED now
    /\ StorageFrame

CallStorageCleanup ==
    /\ \E fail \in CanFail(backend) :
          LET r == StorageCleanup(backend, store, now, fail)
          IN /\ store' = r.st
             /\ sto' = [NoStorageCall EXCEPT
                          !.op = "Cleanup", !.fail = fail, !.ok = r.ok,
                          !.again = Repeats(sto, "Cleanup", EmptyValue), !.set = sto.set]
    /\ ret' = NoRet
    /\ UNCHANGED now
    /\ StorageFrame

\* -------------------------------------- the lock of the MemoryStorage
\* The lock each method of MemoryStorage takes: ms.mu.RLock() in Get and
\* Exists, ms.mu.Lock() in Set, Delete and Cleanup.
LockMode(op) == IF op \in {"Get", "Exists"} THEN "R" ELSE "W"

MemoryMethods == {"Get", "Exists", "Set", "Delete", "Cleanup"}

\* The goroutines that hold the lock, in either mode.
Holders == lk.readers \cup (IF lk.writer = 0 THEN {} ELSE {lk.writer})

\* What the body of a method makes of the sessions map.
MemoryBody(op, id) ==
    IF op = "Get" THEN MemoryStorageGet(store, id, now).st
    ELSE IF op = "Set"
    THEN MemoryStorageSet(store, id, [kind |-> "bytes"], TicksPerSecond, now).st
    ELSE IF op = "Delete" THEN MemoryStorageDelete(store, id).st
    ELSE IF op = "Cleanup" THEN MemoryStorageCleanup(store, now).st
    ELSE store

LockFrame ==
    UNCHANGED <<config, gc, sto, fl, cx, rt, tm, mu, rec, pc, call, nextId, saved,
                born, destroyed, lastLoad, touched, mw>>

\* Time passes, up to the expiry of an entry and beyond.
LockElapse ==
    /\ now <= TicksPerSecond
    /\ now' = now + 1
    /\ ret' = NoRet
    /\ UNCHANGED <<store, lk>>
    /\ LockFrame

\* Goroutine i calls a method of the storage and is about to take its lock.
LockCall(i, op, id) ==
    /\ lk.g[i].pc = "out"
    /\ lk' = [lk EXCEPT !.g[i] = [pc |-> "waiting", op |-> op, id |-> id]]
    /\ ret' = NoRet
    /\ UNCHANGED <<now, store>>
    /\ LockFrame

\* ms.mu.RLock() or ms.mu.Lock(): a reader waits for the writer, a writer for
\* everybody.
LockAcquire(i) ==
    /\ lk.g[i].pc = "waiting"
    /\ IF LockMode(lk.g[i].op) = "R"
       THEN /\ lk.writer = 0
            /\ lk' = [lk EXCEPT !.readers = @ \cup {i}, !.g[i].pc = "holding"]
       ELSE /\ Holders = {}
            /\ lk' = [lk EXCEPT !.writer = i, !.g[i].pc = "holding"]
    /\ ret' = NoRet
    /\ UNCHANGED <<now, store>>
    /\ LockFrame

\* The body of the method, between the lock and the deferred unlock.
LockBody(i) ==
    /\ lk.g[i].pc = "holding"
    /\ store' = MemoryBody(lk.g[i].op, lk.g[i].id)
    /\ lk' = [lk EXCEPT !.g[i].pc = "done"]
    /\ ret' = [NoRet EXCEPT !.op = lk.g[i].op, !.slot = i]
    /\ UNCHANGED now
    /\ LockFrame

\* defer ms.mu.RUnlock() or ms.mu.Unlock(): the method returns.
LockRelease(i) ==
    /\ lk.g[i].pc = "done"
    /\ lk' = [lk EXCEPT !.readers = @ \ {i},
                        !.writer = IF @ = i THEN 0 ELSE @,
                        !.g[i] = NoLock.g[i]]
    /\ ret' = NoRet
    /\ UNCHANGED <<now, store>>
    /\ LockFrame

\* ---------------------------------------------- the lock of the record
\* Goroutines call the methods of the record in the first slot at the same
\* time.  Each method starts with s.mu.Lock() and defers s.mu.Unlock(); Save
\* and Destroy are followed statement by statement.
RecordMutators == {"Set", "Delete", "Clear", "AddFlash", "GetFlashes", "Touch"}
RecordMethods == RecordMutators \cup {"Save", "Destroy"}

\* The places of a method between s.mu.Lock() and its return.
InsideMethod == {"locked", "marshalled", "stored", "deleted", "done"}

\* A variant of HoldsMu in which Save gives the lock up before Storage.Set.
HoldsMuUntilMarshalled(op, at) ==
    at \in InsideMethod /\ ~(op = "Save" /\ at \in {"marshalled", "stored", "done"})

\* Whether a goroutine at a place of a method holds s.mu: from the Lock to the
\* deferred Unlock that runs at the return.
HoldsMu(op, at) == at \in InsideMethod

MuHolders == {i \in Goroutines : HoldsMu(mu[i].op, mu[i].pc)}

\* What a mutator makes of the record, for each of its arguments.
MutatorResults(op, r, t) ==
    IF op = "Set" THEN {Set(r, k, v) : k \in Keys, v \in Vals}
    ELSE IF op = "Delete" THEN {Delete(r, k) : k \in Keys}
    ELSE IF op = "Clear" THEN {Clear(r)}
    ELSE IF op = "AddFlash"
    THEN {AddFlash(r, m, c) : m \in Msgs,
              c \in {c \in Categories : c \in DOMAIN r.data.FlashData
                                           => Len(r.data.FlashData[c]) < MaxFlash}}
    ELSE IF op = "GetFlashes" THEN {GetFlashes(r, c).rec : c \in Categories}
    ELSE {Touch(r, t)}

MutexFrame ==
    UNCHANGED <<config, gc, sto, fl, cx, rt, lk, tm, pc, call, nextId, saved, born,
                lastLoad, touched, mw>>

\* Time passes once, so that a Touch moves LastAccess.
MuElapse ==
    /\ now = 0
    /\ now' = TicksPerSecond
    /\ ret' = NoRet
    /\ UNCHANGED <<store, rec, destroyed, mu>>
    /\ MutexFrame

\* Goroutine i calls a method of the record.
MuCall(i, op) ==
    /\ pc[FirstSlot] = "held"
    /\ mu[i].pc = "out"
    /\ mu' = [mu EXCEPT ![i] = [pc |-> "waiting", op |-> op, data |-> Garbage]]
    /\ ret' = NoRet
    /\ UNCHANGED <<now, store, rec, destroyed>>
    /\ MutexFrame

\* s.mu.Lock() returns once no goroutine holds the lock.
MuLock(i) ==
    /\ mu[i].pc = "waiting"
    /\ MuHolders = {}
    /\ mu' = [mu EXCEPT ![i].pc = "locked"]
    /\ ret' = NoRet
    /\ UNCHANGED <<now, store, rec, destroyed>>
    /\ MutexFrame

\* The body of Set, Delete, Clear, AddFlash, GetFlashes or Touch.
MuMutate(i) ==
    /\ mu[i].pc = "locked"
    /\ mu[i].op \in RecordMutators
    /\ \E r \in MutatorResults(mu[i].op, rec[FirstSlot], now) :
          rec' = [rec EXCEPT ![FirstSlot] = r]
    /\ mu' = [mu EXCEPT ![i].pc = "done"]
    /\ ret' = [NoRet EXCEPT !.op = mu[i].op, !.slot = FirstSlot]
    /\ UNCHANGED <<now, store, destroyed>>
    /\ MutexFrame

\* Save: if !s.dirty return nil; json.Marshal(s.data) and encrypt.
MuSaveMarshal(i) ==
    /\ mu[i].pc = "locked"
    /\ mu[i].op = "Save"
    /\ LET r == rec[FirstSlot]
       IN IF ~r.dirty \/ (options.EncryptionKey # NoKey
                             /\ ~encryptOk(options.EncryptionKey))
          THEN mu' = [mu EXCEPT ![i].pc = "done"]
          ELSE mu' = [mu EXCEPT ![i].pc = "marshalled",
                                ![i].data = encrypt(options.EncryptionKey,
                                                    Marshal(r.data))]
    /\ ret' = NoRet
    /\ UNCHANGED <<now, store, rec, destroyed>>
    /\ MutexFrame

\* Save: s.storage.Set(ctx, s.data.ID, data, MaxAge), which may fail.
MuSaveSet(i) ==
    /\ mu[i].pc = "marshalled"
    /\ \E fail \in CanFail(backend) :
          LET w == StorageSet(backend, store, rec[FirstSlot].data.ID, mu[i].data,
                              options.MaxAge, now, fail)
          IN /\ store' = w.st
             /\ mu' = [mu EXCEPT ![i].pc = IF w.ok THEN "stored" ELSE "done"]
    /\ ret' = NoRet
    /\ UNCHANGED <<now, rec, destroyed>>
    /\ MutexFrame

\* Save: s.dirty = false; return nil.
MuSaveClean(i) ==
    /\ mu[i].pc = "stored"
    /\ rec' = [rec EXCEPT ![FirstSlot].dirty = FALSE]
    /\ mu' = [mu EXCEPT ![i].pc = "done"]
    /\ ret' = [NoRet EXCEPT !.op = "Save", !.slot = FirstSlot, !.set = TRUE]
    /\ UNCHANGED <<now, store, destroyed>>
    /\ MutexFrame

\* Destroy: s.storage.Delete(ctx, s.data.ID), which may fail.
MuDestroyDelete(i) ==
    /\ mu[i].pc = "locked"
    /\ mu[i].op = "Destroy"
    /\ \E fail \in CanFail(backend) :
          LET d == StorageDelete(backend, store, rec[FirstSlot].data.ID, fail)
          IN /\ store' = d.st
             /\ mu' = [mu EXCEPT ![i].pc = IF d.ok THEN "deleted" ELSE "done"]
             /\ destroyed' = IF d.ok THEN destroyed \cup {rec[FirstSlot].data.ID}
                             ELSE destroyed
    /\ ret' = NoRet
    /\ UNCHANGED <<now, rec>>
    /\ MutexFrame

\* Destroy: the maps are replaced by empty ones and s.dirty = false.
MuDestroyClear(i) ==
    /\ mu[i].pc = "deleted"
    /\ rec' = [rec EXCEPT ![FirstSlot] =
                  [@ EXCEPT !.data.Attributes = EmptyMap,
                            !.data.FlashData = EmptyMap,
                            !.data.FlashNil = FALSE,
                            !.dirty = FALSE]]
    /\ mu' = [mu EXCEPT ![i].pc = "done"]
    /\ ret' = [NoRet EXCEPT !.op = "Destroy", !.slot = FirstSlot]
    /\ UNCHANGED <<now, store, destroyed>>
    /\ MutexFrame

\* The deferred s.mu.Unlock(): the method returns.
MuUnlock(i) ==
    /\ mu[i].pc = "done"
    /\ mu' = [mu EXCEPT ![i] = NoMutex[i]]
    /\ ret' = NoRet
    /\ UNCHANGED <<now, store, rec, destroyed>>
    /\ MutexFrame

\* ------------------------------------------------ the timeout middleware
MaxWrites == 2
StatusOK == 200
StatusRequestTimeout == 408

TimeoutFrame ==
    UNCHANGED <<now, config, gc, sto, fl, cx, rt, lk, mu, store, rec, pc, call, nextId,
                saved, born, destroyed, lastLoad, touched, mw>>

\* WriteHeader on a ResponseWriter: the first status sent stays.
WriteHeader(w, status) == IF w.status = 0 THEN [w EXCEPT !.status = status] ELSE w

\* Write on a ResponseWriter: sends 200 if no status was sent, then the bytes.
Write(w, who) == [WriteHeader(w, StatusOK) EXCEPT !.body = Append(@, who)]

\* The places of ServeHTTP's timeout case after its log statement, where it
\* reads and writes w.
TimeoutWriting == {"logged", "setting", "heading", "writing"}

\* TimeoutMiddleware.ServeHTTP up to its select: the context with the
\* deadline, the done channel, and the goroutine running next.ServeHTTP(w, r).
TimeoutServeHTTP(logger) ==
    /\ tm.pc = "idle"
    /\ tm' = [NoTimeoutRequest EXCEPT !.pc = "select", !.h = "running",
                                      !.logger = logger]
    /\ ret' = NoRet
    /\ TimeoutFrame

\* The deadline of the context passes: ctx.Done() is closed.
TimerFire ==
    /\ tm.pc = "select"
    /\ ~tm.fired
    /\ tm' = [tm EXCEPT !.fired = TRUE]
    /\ ret' = NoRet
    /\ TimeoutFrame

\* The handler goroutine uses w: w.Header().Set("Content-Type", ...),
\* w.WriteHeader(200) or w.Write(...).  Nothing keeps it from w once the
\* caller writes the timeout response or has returned.
HandlerUses(op) ==
    /\ tm.h = "running"
    /\ op = "Write" => Len(tm.w.body) < MaxWrites
    /\ op = "Header" => tm.w.contentType = ""
    /\ op = "WriteHeader" => tm.w.status = 0
    /\ tm' = [tm EXCEPT
                !.w = IF op = "Header" THEN [@ EXCEPT !.contentType = "handler"]
                      ELSE IF op = "WriteHeader" THEN WriteHeader(@, StatusOK)
                      ELSE Write(@, "handler"),
                !.racing = @ \/ tm.pc \in TimeoutWriting,
                !.late = @ \/ (tm.pc = "returned" /\ tm.via = "timeout")]
    /\ ret' = NoRet
    /\ TimeoutFrame

\* next.ServeHTTP returns or panics; the deferred function keeps the panic
\* value and closes done.
HandlerEnds(panics) ==
    /\ tm.h = "running"
    /\ tm' = [tm EXCEPT !.h = "finished", !.panicValue = panics]
    /\ ret' = NoRet
    /\ TimeoutFrame

\* select, case <-done: panic(panicValue) or return.
SelectDone ==
    /\ tm.pc = "select"
    /\ tm.h = "finished"
    /\ tm' = [tm EXCEPT !.pc = IF tm.panicValue THEN "panicked" ELSE "returned",
                        !.via = "done"]
    /\ ret' = [NoRet EXCEPT !.op = "ServeHTTP"]
    /\ TimeoutFrame

\* select, case <-ctx.Done(): the warning, if there is a logger.
SelectTimeout ==
    /\ tm.pc = "select"
    /\ tm.fired
    /\ tm' = [tm EXCEPT !.pc = "logged", !.via = "timeout",
                        !.logged = IF tm.logger THEN @ + 1 ELSE @]
    /\ ret' = NoRet
    /\ TimeoutFrame

\* if w.Header().Get("Content-Type") == "": otherwise return.
TimeoutCheck ==
    /\ tm.pc = "logged"
    /\ tm' = [tm EXCEPT !.pc = IF tm.w.contentType = "" THEN "setting"
                               ELSE "returned"]
    /\ ret' = IF tm.w.contentType = "" THEN NoRet
              ELSE [NoRet EXCEPT !.op = "ServeHTTP"]
    /\ TimeoutFrame

\* w.Header().Set("Content-Type", "text/plain; charset=utf-8")
TimeoutSetHeader ==
    /\ tm.pc = "setting"
    /\ tm' = [tm EXCEPT !.pc = "heading", !.w.contentType = "text/plain"]
    /\ ret' = NoRet
    /\ TimeoutFrame

\* w.WriteHeader(http.StatusRequestTimeout)
TimeoutWriteHeader ==
    /\ tm.pc = "heading"
    /\ tm' = [tm EXCEPT !.pc = "writing",
                        !.w = WriteHeader(@, StatusRequestTimeout)]
    /\ ret' = NoRet
    /\ TimeoutFrame

\* w.Write([]byte(tm.options.ErrorMessage)); return.
TimeoutWrite ==
    /\ tm.pc = "writing"
    /\ tm' = [tm EXCEPT !.pc = "returned", !.w = Write(@, "timeout")]
    /\ ret' = [NoRet EXCEPT !.op = "ServeHTTP"]
    /\ TimeoutFrame

\* ------------------------------------------------------------ flash calls
\* What the caller means by a category argument: no name and the empty name
\* stand for the default category.
Meant(category) ==
    IF category = <<>> \/ category = <<"">> THEN "default" ELSE category[1]

FlashFrame ==
    UNCHANGED <<now, config, gc, sto, cx, rt, lk, tm, mu, store, pc, call, nextId, saved, born,
                destroyed, lastLoad, mw>>

\* session.AddFlash(message, category...) on the record in slot s.
FlashAdd(s, message, category) ==
    /\ pc[s] = "held"
    /\ Len(fl.owed[Meant(category)]) < MaxFlashQueue
    /\ rec' = [rec EXCEPT ![s] = AddFlash(rec[s], message, FlashCategory(category))]
    /\ fl' = [NoFlashCall EXCEPT
                !.op = "AddFlash", !.category = category, !.value = message,
                !.clean = ~rec[s].dirty,
                !.due = fl.owed[Meant(category)],
                !.owed = [fl.owed EXCEPT ![Meant(category)] = Append(@, message)]]
    /\ ret' = [NoRet EXCEPT !.op = "AddFlash"]
    /\ UNCHANGED touched
    /\ FlashFrame

\* session.GetFlashes(category...) on the record in slot s.
FlashGet(s, category) ==
    /\ pc[s] = "held"
    /\ LET g == GetFlashes(rec[s], FlashCategory(category))
       IN /\ rec' = [rec EXCEPT ![s] = g.rec]
          /\ fl' = [NoFlashCall EXCEPT
                      !.op = "GetFlashes", !.category = category,
                      !.got = g.messages, !.clean = ~rec[s].dirty,
                      !.due = fl.owed[Meant(category)],
                      !.owed = [fl.owed EXCEPT ![Meant(category)] = <<>>]]
    /\ ret' = [NoRet EXCEPT !.op = "GetFlashes"]
    /\ UNCHANGED touched
    /\ FlashFrame

\* ----------------------------------------------- methods of the record
\* A method of the record in slot s: the record it leaves and what it returns.
RecordCall(s, op, key, value, r, got) ==
    /\ pc[s] = "held"
    /\ rec' = [rec EXCEPT ![s] = r]
    /\ fl' = [NoFlashCall EXCEPT
                !.op = op, !.key = key, !.value = value, !.got = got,
                !.clean = ~rec[s].dirty,
                !.absent = key \notin DOMAIN rec[s].data.Attributes,
                !.owed = fl.owed]
    /\ ret' = [NoRet EXCEPT !.op = op]
    /\ FlashFrame

NoValue == NoFlashCall.value

RecordSet(s, k, v) ==
    /\ RecordCall(s, "Set", k, v, Set(rec[s], k, v), <<>>)
    /\ UNCHANGED touched

RecordDelete(s, k) ==
    /\ RecordCall(s, "Delete", k, NoValue, Delete(rec[s], k), <<>>)
    /\ UNCHANGED touched

RecordClear(s) ==
    /\ RecordCall(s, "Clear", "", NoValue, Clear(rec[s]), <<>>)
    /\ UNCHANGED touched

RecordTouch(s) ==
    /\ RecordCall(s, "Touch", "", NoValue, Touch(rec[s], now), <<>>)
    /\ touched' = [touched EXCEPT ![s] = now]

RecordGet(s, k) ==
    /\ RecordCall(s, "Get", k, NoValue, rec[s], Get(rec[s], k))
    /\ UNCHANGED touched

RecordID(s) ==
    /\ RecordCall(s, "ID", "", NoValue, rec[s], rec[s].data.ID)
    /\ UNCHANGED touched

RecordLastAccess(s) ==
    /\ RecordCall(s, "LastAccess", "", NoValue, rec[s], rec[s].data.LastAccess)
    /\ UNCHANGED touched

RecordCreatedAt(s) ==
    /\ RecordCall(s, "CreatedAt", "", NoValue, rec[s], rec[s].data.CreatedAt)
    /\ UNCHANGED touched

RecordIsExpired(s, maxAge) ==
    /\ RecordCall(s, "IsExpired", "", NoValue, rec[s], IsExpired(rec[s], maxAge, now))
    /\ UNCHANGED touched

\* ----------------------------------------------------------------- router
\* The longest list of named middlewares.
MaxChain == 3
MiddlewareNames == {"first", "second", "extra"}

\* A list of NamedMiddleware built from a list of names: the Middleware of an
\* entry is a function of its own, told apart by its list and its place.
NamedList(list, names) ==
    [i \in 1..Len(names) |-> [Name |-> names[i], Middleware |-> <<list, i>>]]

NameLists == UNION {[1..n -> MiddlewareNames] : n \in 0..MaxChain}

\* A handler is the middlewares around the innermost handler, from the inside
\* out; a middleware applied to a handler wraps it.
Wrap(middleware, handler) == Append(handler, middleware)

\* overrideMap after the first loop: for a name, the Middleware of the last
\* override of that name.
OverrideMap(overrides) ==
    [n \in {overrides[j].Name : j \in 1..Len(overrides)} |->
        overrides[CHOOSE j \in 1..Len(overrides) :
                     /\ overrides[j].Name = n
                     /\ \A k \in (j + 1)..Len(overrides) : overrides[k].Name # n
                 ].Middleware]

\* The second loop, from the i-th named middleware on.
RECURSIVE ApplyNamed(_, _, _, _)
ApplyNamed(handler, namedMiddlewares, overrideMap, i) ==
    IF i > Len(namedMiddlewares) THEN handler
    ELSE LET namedMw == namedMiddlewares[i]
         IN ApplyNamed(IF namedMw.Name \in DOMAIN overrideMap
                       THEN Wrap(overrideMap[namedMw.Name], handler)
                       ELSE Wrap(namedMw.Middleware, handler),
                       namedMiddlewares, overrideMap, i + 1)

\* A variant of ApplyLeftover that goes through the overrides from the last to
\* the first.
RECURSIVE ApplyLeftoverBackwards(_, _, _, _)
ApplyLeftoverBackwards(handler, namedMiddlewares, overrides, j) ==
    IF j > Len(overrides) THEN handler
    ELSE LET override == overrides[Len(overrides) + 1 - j]
             found == \E i \in 1..Len(namedMiddlewares) :
                         namedMiddlewares[i].Name = override.Name
         IN ApplyLeftoverBackwards(IF ~found THEN Wrap(override.Middleware, handler)
                                   ELSE handler,
                                   namedMiddlewares, overrides, j + 1)

\* The third loop, from the j-th override on.
RECURSIVE ApplyLeftover(_, _, _, _)
ApplyLeftover(handler, namedMiddlewares, overrides, j) ==
    IF j > Len(overrides) THEN handler
    ELSE LET override == overrides[j]
             found == \E i \in 1..Len(namedMiddlewares) :
                         namedMiddlewares[i].Name = override.Name
         IN ApplyLeftover(IF ~found THEN Wrap(override.Middleware, handler)
                          ELSE handler,
                          namedMiddlewares, overrides, j + 1)

WithNamedMiddlewares(handler, namedMiddlewares, overrides) ==
    ApplyLeftover(ApplyNamed(handler, namedMiddlewares, OverrideMap(overrides), 1),
                  namedMiddlewares, overrides, 1)

\* handler.ServeHTTP: the outermost middleware runs first.
RunOrder(handler) == [i \in 1..Len(handler) |-> handler[Len(handler) + 1 - i]]

RouterFrame ==
    UNCHANGED <<now, config, gc, sto, fl, cx, lk, tm, mu, store, rec, pc, call, nextId, saved,
                born, destroyed, lastLoad, touched, mw>>

\* A route is registered: its handler is built once.
CallWithNamedMiddlewares(names, overrideNames) ==
    /\ rt.op = "none"
    /\ LET namedMiddlewares == NamedList("named", names)
           overrides == NamedList("override", overrideNames)
       IN rt' = [NoRouterCall EXCEPT
                   !.op = "WithNamedMiddlewares",
                   !.namedMiddlewares = namedMiddlewares,
                   !.overrides = overrides,
                   !.handler = WithNamedMiddlewares(<<>>, namedMiddlewares, overrides)]
    /\ ret' = [NoRet EXCEPT !.op = "WithNamedMiddlewares"]
    /\ RouterFrame

\* A request is served by the handler built last.
RouterServeHTTP ==
    /\ rt.op = "WithNamedMiddlewares"
    /\ rt' = [rt EXCEPT !.op = "ServeHTTP", !.ran = RunOrder(rt.handler)]
    /\ ret' = [NoRet EXCEPT !.op = "ServeHTTP"]
    /\ RouterFrame

\* ------------------------------------------------ calls of the cipher
CodecFrame ==
    UNCHANGED <<now, config, gc, sto, fl, rt, lk, tm, mu, store, rec, pc, call, nextId, saved,
                born, destroyed, lastLoad, touched, mw>>

\* q with the lowest bit of its i-th element flipped.
Altered(q, i) == [q EXCEPT ![i] = IF @ % 2 = 0 THEN @ + 1 ELSE @ - 1]

\* What decrypt is called with: what the last encrypt returned, that with one
\* bit altered, a part of it, or any bytes shorter than a nonce.
DecryptInputs ==
    {cx.out}
        \cup {Altered(cx.out, i) : i \in 1..Len(cx.out)}
        \cup {SubSeq(cx.out, 1, n) : n \in 0..Len(cx.out)}
        \cup BytesUpTo(NonceSize - 1)

\* m.encrypt(data); rand.Reader yields the nonce when the key is one AES takes.
CallEncrypt(data, nonce) ==
    /\ LET key == options.EncryptionKey
       IN cx' = [NoCodecCall EXCEPT
                   !.op = "encrypt", !.plain = data,
                   !.nonce = IF key = GoodKey THEN nonce ELSE <<>>,
                   !.out = IF encryptOk(key) THEN encryptBytes(key, nonce, data)
                           ELSE <<>>,
                   !.err = IF encryptOk(key) THEN ErrNil ELSE ErrCipher]
    /\ ret' = [NoRet EXCEPT !.op = "encrypt"]
    /\ CodecFrame

\* m.decrypt(data)
CallDecrypt ==
    /\ cx.op # "none"
    /\ \E data \in DecryptInputs :
          LET key == options.EncryptionKey
          IN cx' = [cx EXCEPT
                      !.op = "decrypt", !.input = data,
                      !.res = IF decryptBytesOk(key, data)
                              THEN decryptBytes(key, data) ELSE <<>>,
                      !.derr = decryptBytesErr(key, data)]
    /\ ret' = [NoRet EXCEPT !.op = "decrypt"]
    /\ CodecFrame

\* ---------------------------------------------------------- specifications
\* Spec: the life cycle of sessions under concurrent requests.  Every slot is a
\* request that creates or loads a session, touches it, saves or destroys it, in
\* any interleaving with the other requests, the clock and the GC.
Next ==
    \/ Tick
    \/ Cleanup
    \/ \E s \in Slots : CallNewSession(s)
    \/ \E s \in Slots, c \in Cookies : BeginResolve(s, c, "GetSession")
    \/ \E s \in Slots : FinishResolve(s)
    \/ \E s \in Slots : CallTouch(s)
    \/ \E s \in Slots : CallSave(s)
    \/ \E s \in Slots : CallDestroy(s)
    \/ \E s \in Slots : Release(s)

Spec == Init /\ [][Next]_vars

\* SpecData: one request at a time, with the session's contents: attributes and
\* flash messages are written, saved, loaded again and read.
NextData ==
    \/ Tick
    \/ CallNewSession(FirstSlot)
    \/ \E c \in Cookies : BeginResolve(FirstSlot, c, "GetSession")
    \/ FinishResolve(FirstSlot)
    \/ CallSet(FirstSlot)
    \/ CallDelete(FirstSlot)
    \/ CallClear(FirstSlot)
    \/ CallAddFlash(FirstSlot)
    \/ CallGetFlashes(FirstSlot)
    \/ CallTouch(FirstSlot)
    \/ CallSave(FirstSlot)
    \/ CallDestroy(FirstSlot)
    \/ Release(FirstSlot)

SpecData == Init /\ [][NextData]_vars

\* SpecErr: one request at a time, with every manager entry point, over a storage
\* that other clients write to and that may fail.
NextErr ==
    \/ Tick
    \/ \E id \in IDs \cup {BogusId} : StorageTamper(id)
    \/ CallNewSession(FirstSlot)
    \/ \E c \in Cookies, o \in Resolvers : BeginResolve(FirstSlot, c, o)
    \/ FinishResolve(FirstSlot)
    \/ GetOrCreateNew(FirstSlot)
    \/ DestroySessionFinish(FirstSlot)
    \/ CallSave(FirstSlot)
    \/ Release(FirstSlot)

SpecErr == Init /\ [][NextErr]_vars

\* SpecMW: requests served one after the other by the session middleware.
NextMW ==
    \/ Tick
    \/ \E c \in Cookies, p \in Paths : ServeHTTPBegin(c, p)
    \/ ServeHTTPResolve
    \/ HandlerFromContext
    \/ HandlerGetSession
    \/ HandlerResolve
    \/ HandlerNewSession
    \/ HandlerSetPath
    \/ HandlerGetPath
    \/ ServeHTTPSave
    \/ ServeHTTPEnd

SpecMW == Init /\ [][NextMW]_vars

\* SpecGC: StartGC and StopGC called in any order while the loop goroutines, the
\* tickers and the clock run and sessions are created.  The Go scheduler runs
\* every goroutine that is ready to run, so a loop goroutine that can take a
\* step eventually takes one.
NextGC ==
    \/ Tick
    \/ CallNewSession(FirstSlot)
    \/ StartGC
    \/ StopGC
    \/ \E k \in 1..MaxGCStarts : TickerFire(k)
    \/ \E i \in 1..MaxGCStarts : LoopSelect(i)
    \/ \E i \in 1..MaxGCStarts : LoopReceiveTick(i)
    \/ \E i \in 1..MaxGCStarts : LoopReceiveStop(i)
    \/ \E i \in 1..MaxGCStarts : LoopCleanup(i)

SpecGC == InitGC /\ [][NextGC]_vars /\ WF_vars(LoopStep)

\* SpecGCSelf: as SpecGC without the clock and the sessions, and the
\* Storage.Cleanup of a loop goroutine may call StopGC.  A goroutine that has
\* called StopGC runs on: the scheduler runs a goroutine that is ready, and a
\* goroutine that waits for the mutex gets it once it is free.
NextGCSelf ==
    \/ StartGC
    \/ StopGC
    \/ \E k \in 1..MaxGCStarts : TickerFire(k)
    \/ \E i \in 1..MaxGCStarts : LoopSelect(i)
    \/ \E i \in 1..MaxGCStarts : LoopReceiveTick(i)
    \/ \E i \in 1..MaxGCStarts : LoopReceiveStop(i)
    \/ \E i \in 1..MaxGCStarts : LoopCleanup(i)
    \/ \E i \in 1..MaxGCStarts : LoopCallsStopGC(i)
    \/ \E i \in 1..MaxGCStarts : LoopStopGCLock(i)
    \/ \E i \in 1..MaxGCStarts : LoopStopGCReturn(i)

SpecGCSelf ==
    /\ InitGC
    /\ [][NextGCSelf]_vars
    /\ WF_vars(LoopStep)
    /\ \A i \in 1..MaxGCStarts :
          WF_vars(LoopStopGCLock(i)) /\ WF_vars(LoopStopGCReturn(i))

\* SpecStore: a client calls the five methods of the Storage directly, in any
\* order and at any tick.
NextStore ==
    \/ Elapse
    \/ \E id \in StorageIds, d \in Payloads, ttl \in TTLs :
           CallStorageSet(id, d, ttl)
    \/ \E id \in StorageIds : CallStorageGet(id)
    \/ \E id \in StorageIds : CallStorageExists(id)
    \/ \E id \in StorageIds : CallStorageDelete(id)
    \/ CallStorageCleanup

SpecStore == InitStore /\ [][NextStore]_vars

\* SpecFlash: a handler adds flash messages to the categories of a new session
\* and reads them, in any order.
NextFlash ==
    \/ CallNewSession(FirstSlot)
    \/ \E m \in FlashMsgs, c \in CategoryArgs : FlashAdd(FirstSlot, m, c)
    \/ \E c \in CategoryArgs : FlashGet(FirstSlot, c)

SpecFlash == Init /\ [][NextFlash]_vars

\* SpecFlashLoad: a handler loads a session, its own or one another client
\* wrote without flash data, adds and reads flash messages and saves.
NextFlashLoad ==
    \/ CallNewSession(FirstSlot)
    \/ \E c \in Cookies : BeginResolve(FirstSlot, c, "GetSession")
    \/ FinishResolve(FirstSlot)
    \/ CallAddFlash(FirstSlot)
    \/ \E c \in CategoryArgs : FlashGet(FirstSlot, c)
    \/ CallSave(FirstSlot)
    \/ Release(FirstSlot)
    \/ \E id \in IDs : StoragePlantWithoutFlash(id)

SpecFlashLoad == InitStore /\ [][NextFlashLoad]_vars

\* SpecRace: two requests at the same time hold records of one session, write
\* attributes to them and save them, in any order.
NextRace ==
    \/ \E s \in Slots : CallNewSession(s)
    \/ \E s \in Slots, c \in Cookies : BeginResolve(s, c, "GetSession")
    \/ \E s \in Slots : FinishResolve(s)
    \/ \E s \in Slots : CallSet(s)
    \/ \E s \in Slots : CallSave(s)
    \/ \E s \in Slots : Release(s)

SpecRace == Init /\ [][NextRace]_vars

\* SpecMutex: the goroutines of one request call the methods of the record of
\* a new session at the same time, while time passes.
NextMutex ==
    \/ MuElapse
    \/ CallNewSession(FirstSlot)
    \/ \E i \in Goroutines, op \in RecordMethods : MuCall(i, op)
    \/ \E i \in Goroutines : MuLock(i)
    \/ \E i \in Goroutines : MuMutate(i)
    \/ \E i \in Goroutines : MuSaveMarshal(i)
    \/ \E i \in Goroutines : MuSaveSet(i)
    \/ \E i \in Goroutines : MuSaveClean(i)
    \/ \E i \in Goroutines : MuDestroyDelete(i)
    \/ \E i \in Goroutines : MuDestroyClear(i)
    \/ \E i \in Goroutines : MuUnlock(i)

SpecMutex == InitStore /\ [][NextMutex]_vars

\* SpecTTL: a session is created, loaded, saved and released at any tick of
\* the clock, with an idle timeout below MaxAge or equal to it, while
\* Storage.Cleanup runs.
InitTTL ==
    /\ options \in SessionOptions({CfgIdleTimeout * TicksPerSecond,
                                    CfgMaxAge * TicksPerSecond})
    /\ options.EncryptionKey = NoKey
    /\ InitState
    /\ gc = NoGC
    /\ sto = NoStorageCall

TTLElapse ==
    /\ now < MaxTime
    /\ now' = now + 1
    /\ ret' = NoRet
    /\ UNCHANGED <<config, gc, sto, fl, cx, rt, lk, tm, mu, store, rec, pc, call, nextId,
                   saved, born, destroyed, lastLoad, touched, mw>>

NextTTL ==
    \/ TTLElapse
    \/ Cleanup
    \/ CallNewSession(FirstSlot)
    \/ \E c \in Cookies : BeginResolve(FirstSlot, c, "GetSession")
    \/ FinishResolve(FirstSlot)
    \/ CallSave(FirstSlot)
    \/ Release(FirstSlot)

SpecTTL == InitTTL /\ [][NextTTL]_vars

\* SpecTimeout: the timeout middleware, with or without a logger, serves a
\* request whose handler uses the ResponseWriter, returns or panics at any
\* moment before or after the deadline.
NextTimeout ==
    \/ \E logger \in BOOLEAN : TimeoutServeHTTP(logger)
    \/ TimerFire
    \/ \E op \in {"Header", "WriteHeader", "Write"} : HandlerUses(op)
    \/ \E panics \in BOOLEAN : HandlerEnds(panics)
    \/ SelectDone
    \/ SelectTimeout
    \/ TimeoutCheck
    \/ TimeoutSetHeader
    \/ TimeoutWriteHeader
    \/ TimeoutWrite

SpecTimeout == InitStore /\ [][NextTimeout]_vars

\* SpecRecord: a handler calls the methods of the record of a new session in
\* any order while time passes.
NextRecord ==
    \/ Tick
    \/ CallNewSession(FirstSlot)
    \/ \E k \in AttrKeys, v \in Vals : RecordSet(FirstSlot, k, v)
    \/ \E k \in AttrKeys : RecordDelete(FirstSlot, k)
    \/ RecordClear(FirstSlot)
    \/ RecordTouch(FirstSlot)
    \/ \E m \in FlashMsgs : FlashAdd(FirstSlot, m, <<>>)
    \/ \E k \in AttrKeys : RecordGet(FirstSlot, k)
    \/ RecordID(FirstSlot)
    \/ RecordLastAccess(FirstSlot)
    \/ RecordCreatedAt(FirstSlot)
    \/ RecordIsExpired(FirstSlot, options.MaxAge)

SpecRecord == InitStore /\ [][NextRecord]_vars

\* SpecCodec: payloads are encrypted and what comes back from the storage,
\* whole, cut or altered, is decrypted, under every key configuration.
InitCodec ==
    /\ Init
    /\ backend = "memory"

NextCodec ==
    \/ \E data \in BytesUpTo(MaxPlain), nonce \in Nonces : CallEncrypt(data, nonce)
    \/ CallDecrypt

SpecCodec == InitCodec /\ [][NextCodec]_vars

\* SpecPayload: one request at a time saves and loads sessions under every key
\* configuration, over a storage whose payloads other clients replace.
NextPayload ==
    \/ CallNewSession(FirstSlot)
    \/ \E c \in Cookies : BeginResolve(FirstSlot, c, "GetSession")
    \/ FinishResolve(FirstSlot)
    \/ CallSet(FirstSlot)
    \/ CallSave(FirstSlot)
    \/ Release(FirstSlot)
    \/ \E id \in IDs : StoragePlant(id)

SpecPayload == Init /\ [][NextPayload]_vars

\* SpecRouter: handlers are built from every pair of lists of named
\* middlewares and serve a request.
InitRouter ==
    /\ InitStore
    /\ backend = "memory"

NextRouter ==
    \/ \E names \in NameLists, overrideNames \in NameLists :
          CallWithNamedMiddlewares(names, overrideNames)
    \/ RouterServeHTTP

SpecRouter == InitRouter /\ [][NextRouter]_vars

\* SpecLock: goroutines call the methods of one MemoryStorage at the same
\* time; each call is its lock, its body and its unlock.
InitLock ==
    /\ InitStore
    /\ backend = "memory"

NextLock ==
    \/ LockElapse
    \/ \E i \in Goroutines, op \in MemoryMethods, id \in IDs : LockCall(i, op, id)
    \/ \E i \in Goroutines : LockAcquire(i)
    \/ \E i \in Goroutines : LockBody(i)
    \/ \E i \in Goroutines : LockRelease(i)

SpecLock == InitLock /\ [][NextLock]_vars

\* -------------------------------------------------------------- properties
\* What a GetSession that has just returned found in the payload it decoded.
Returned(op) == ret.op = op
DecodedAge == now - ret.orig.data.CreatedAt
DecodedIdle == now - ret.orig.data.LastAccess

\* C1: once a Destroy has succeeded for an ID, every GetSession that starts
\* afterwards with that ID returns ErrSessionNotFound.  (Under Spec.)
C1_DestroyIsTerminal ==
    (Returned("GetSession") /\ ret.stale) => ret.err = ErrSessionNotFound

\* C2: a GetSession that succeeds returns a session with the ID of the cookie
\* whose Get(k) is, for every key k, what Get(k) was on the record that was saved
\* last, and whose flash queues are the saved ones.  (Under SpecData.)
C2_RoundTrip ==
    (Returned("GetSession") /\ ret.err = ErrNil) =>
        LET r == rec[ret.slot]
            o == [data |-> ret.orig.data, dirty |-> FALSE]
        IN /\ r.data.ID = ret.cookie.val
           /\ \A k \in Keys : Get(r, k) = Get(o, k)
           /\ r.data.FlashData = o.data.FlashData

\* C3: when the request before was a cookieless /set that the handler served with
\* the session GetOrCreateSession gave it, and this request carries the cookie
\* that one issued, at the same instant, then the handler on /get reads the
\* attribute and the flash message the first handler set.  (Under SpecMW.)
C3_AutoSave ==
    ( /\ mw.pc = "after" /\ mw.path = "get" /\ mw.hsess # 0
      /\ mw.prev.path = "set" /\ mw.prev.cookieless /\ mw.prev.ok
      /\ mw.cookie = Cookie(mw.prev.issued) /\ now = mw.prev.time ) =>
        /\ mw.read = [value |-> HandlerValue, exists |-> TRUE]
        /\ mw.flashes = <<HandlerMessage>>

\* C4: a GetSession that decoded a stored session returns ErrSessionNotFound when
\* the stored age exceeds MaxAge, whatever the idle time, and when the stored idle
\* time exceeds IdleTimeout, whatever the age; it returns the session when
\* neither does.  (Under Spec.)
C4_ExpiryPrecedence ==
    (Returned("GetSession") /\ ret.decoded) =>
        /\ DecodedAge > options.MaxAge => ret.err = ErrSessionNotFound
        /\ DecodedIdle > options.IdleTimeout => ret.err = ErrSessionNotFound
        /\ (DecodedAge <= options.MaxAge /\ DecodedIdle <= options.IdleTimeout)
              => (ret.err = ErrNil /\ ret.slot \in Slots)

\* A session older than MaxAge is refused although its stored idle time is small.
C4_Witness ==
    /\ Returned("GetSession") /\ ret.decoded
    /\ ret.err = ErrSessionNotFound
    /\ DecodedAge > options.MaxAge
    /\ DecodedIdle <= options.IdleTimeout

\* C5: no GetSession returns a session more than MaxAge after NewSession created
\* its ID, whatever loads, touches, mutations and saves came between.
\* (Under SpecData.)
C5_AbsoluteExpiry ==
    (Returned("GetSession") /\ ret.err = ErrNil) =>
        now - born[ret.cookie.val] <= options.MaxAge

\* A session is returned at the very end of its life, after activity that was
\* saved (and refreshed the storage TTL).
C5_Witness ==
    /\ Returned("GetSession") /\ ret.err = ErrNil
    /\ now - born[ret.cookie.val] = options.MaxAge
    /\ ret.orig.touched > born[ret.cookie.val]

\* C6, as stated: a GetSession reports a session within MaxAge idle-expired only
\* when more than IdleTimeout has passed since the last successful load (or the
\* creation) of its ID.  (Under Spec.)
C6_IdleSinceLastLoad ==
    ( /\ Returned("GetSession") /\ ret.decoded
      /\ ret.err = ErrSessionNotFound
      /\ now - born[ret.cookie.val] <= options.MaxAge ) =>
        now - lastLoad[ret.cookie.val] > options.IdleTimeout

\* C6, amended: a GetSession reports a session within MaxAge idle-expired exactly
\* when more than IdleTimeout has passed since the record whose Save wrote the
\* payload it read was created, loaded or touched; a load that is not followed by
\* a Save of the loaded record does not count.  (Under Spec.)
C6_IdleSinceLastSavedAccess ==
    ( /\ Returned("GetSession") /\ ret.decoded
      /\ now - born[ret.cookie.val] <= options.MaxAge ) =>
        (ret.err = ErrSessionNotFound <=> now - ret.orig.touched > options.IdleTimeout)

\* A session is reported idle-expired within IdleTimeout of a successful load
\* that was not saved.
C6_Witness ==
    /\ Returned("GetSession") /\ ret.decoded
    /\ ret.err = ErrSessionNotFound
    /\ now - born[ret.cookie.val] <= options.MaxAge
    /\ now - ret.orig.touched > options.IdleTimeout
    /\ now - lastLoad[ret.cookie.val] <= options.IdleTimeout

\* C7: when GetSession has found the stored session expired and returns
\* ErrSessionNotFound, Storage.Exists is false for its ID.  (Under Spec.)
C7_ExpiredReclaimed ==
    (Returned("GetSession") /\ ret.decoded /\ ret.err = ErrSessionNotFound) =>
        ~StorageExists(backend, store, ret.cookie.val, now, FALSE)

\* C8: GetSession returns ErrSessionNotFound exactly when the cookie is missing or
\* empty, Storage.Get has no live entry, or the decoded session is expired;
\* ErrDecryptionFailed exactly when a key is configured and the payload is not a
\* ciphertext of it; ErrInvalidSession exactly when the plaintext is no JSON
\* document; the storage's error exactly when Storage.Get failed; and with an
\* error it returns no session.  (Under SpecErr.)
C8_ErrorTaxonomy ==
    Returned("GetSession") =>
        LET key == options.EncryptionKey
            opens == key = GoodKey /\ ret.seen.kind = "sealed" /\ ret.seen.key = key
            plain == IF key = NoKey THEN ret.seen
                     ELSE IF opens THEN ret.seen.plain ELSE Garbage
            fetched == ret.got = "data" /\ ~ret.decoded
            expired == \/ DecodedAge > options.MaxAge
                       \/ DecodedIdle > options.IdleTimeout
        IN /\ ret.err # ErrNil =>
                 (ret.slot = 0 /\ \A s \in Slots : pc[s] = "free" /\ rec[s] = NoRec)
           /\ ret.err = ErrSessionNotFound <=>
                 \/ ~ret.cookie.has
                 \/ ret.cookie.val = EmptyValue
                 \/ ret.got = "absent"
                 \/ ret.decoded /\ expired
           /\ ret.err = ErrDecryptionFailed <=> (fetched /\ key # NoKey /\ ~opens)
           /\ ret.err = ErrInvalidSession <=>
                 (fetched /\ (key = NoKey \/ opens) /\ plain.kind # "json")
           /\ ret.err = ErrStorage <=> ret.got = "error"

\* GetSession meets a payload its key does not open.
C8_Witness ==
    /\ Returned("GetSession")
    /\ ret.err = ErrDecryptionFailed
    /\ ret.got = "data"
    /\ ret.seen = Garbage

\* C9: GetOrCreateSession calls NewSession only when its GetSession returned
\* ErrSessionNotFound, and returns any other error of GetSession to its caller.
\* (Under SpecErr.)
C9_CreateOnlyOnNotFound ==
    Returned("GetOrCreateSession") =>
        /\ ret.created => ret.getErr = ErrSessionNotFound
        /\ ret.getErr \notin {ErrNil, ErrSessionNotFound} => ret.err = ret.getErr

\* C10: the session GetSession returns has LastAccess at the time of the call and
\* is dirty, and a Save of it as it is calls Storage.Set.  (Under Spec.)
C10_ReadSchedulesWriteBack ==
    (Returned("GetSession") /\ ret.err = ErrNil) =>
        LET r == rec[ret.slot]
        IN /\ r.data.LastAccess = now
           /\ r.dirty
           /\ \A fail \in CanFail(backend) :
                  Save(r, options, backend, store, now, fail).set

\* GetSession returns a session whose stored LastAccess was earlier.
C10_Witness ==
    /\ Returned("GetSession") /\ ret.err = ErrNil
    /\ ret.orig.data.LastAccess < now
    /\ rec[ret.slot].dirty

\* When an entry written now with the given TTL expires, on the backend in use.
ExpiryOf(ttl) ==
    IF backend = "memory" THEN now + ttl ELSE Unix(now) + Seconds(ttl)

\* What the stored bytes of a record are, under the configured key.
StoredForm(d) == encrypt(options.EncryptionKey, Marshal(d))

C12_DestroyContract ==
    [][ret'.op = "Destroy" =>
          LET s == ret'.slot
              r == rec[s]
              r2 == rec'[s]
          IN IF ret'.err = ErrNil
             THEN /\ store' = MapDel(store, r.data.ID)
                  /\ ~StorageExists(backend, store', r.data.ID, now, FALSE)
                  /\ r2.data.Attributes = EmptyMap
                  /\ r2.data.FlashData = EmptyMap
                  /\ ~r2.dirty
                  /\ r2.data.ID = r.data.ID
             ELSE r2 = r /\ store' = store]_vars

\* A Destroy has failed on a dirty record that holds an attribute and a flash.
C12_Witness ==
    /\ Returned("Destroy")
    /\ ret.err = ErrDestroyFailed
    /\ rec[ret.slot].dirty
    /\ rec[ret.slot].data.Attributes # EmptyMap
    /\ rec[ret.slot].data.FlashData # EmptyMap

C14_NewSessionSaveFails ==
    (Returned("NewSession") /\ ret.err \in {ErrSaveFailed, ErrEncryptionFailed}) =>
        /\ ret.slot = 0
        /\ \A s \in Slots : rec[s].data.ID # ret.cookie.val
        /\ ret.cookie.has /\ ret.cookie.val \in IDs
        /\ ret.cookie.val \notin DOMAIN store
        /\ ~StorageExists(backend, store, ret.cookie.val, now, FALSE)
        /\ ret.setCookie = "issue"

\* NewSession has failed to encrypt and has set the cookie.
C14_Witness ==
    /\ Returned("NewSession")
    /\ ret.err = ErrEncryptionFailed
    /\ ret.setCookie = "issue"
    /\ ret.cookie.val \in IDs

\* C15, as stated: a DestroySession whose GetSession fails returns the error, sets
\* no cookie and deletes nothing (no entry that Storage.Get would still have
\* returned); one whose GetSession succeeds sets the expiring cookie and leaves
\* Storage.Exists false for the ID.  (Under SpecErr.)
C15_DestroySessionDeletes ==
    [][ret'.op = "DestroySession" =>
          IF ret'.setCookie = "expire"
          THEN ~StorageExists(backend, store', ret'.cookie.val, now, FALSE)
          ELSE /\ ret'.err # ErrNil
               /\ ret'.setCookie = NoSetCookie
               /\ \A i \in DOMAIN store :
                      StorageGet(backend, store, i, now, FALSE).res = "data"
                          => i \in DOMAIN store']_vars

\* C15, amended: a DestroySession whose GetSession fails returns the error and
\* sets no cookie, and the storage has lost at most the entry of the cookie's ID,
\* which GetSession removes when it is expired (then the error is
\* ErrSessionNotFound); one whose GetSession succeeds sets the expiring cookie
\* and then either returns nil, having removed exactly that entry so that
\* Storage.Exists is false, or returns the error of the failed Delete with the
\* storage unchanged.  (Under SpecErr.)
C15_DestroySessionContract ==
    [][ret'.op = "DestroySession" =>
          LET id == ret'.cookie.val
          IN IF ret'.setCookie = "expire"
             THEN IF ret'.err = ErrNil
                  THEN /\ store' = MapDel(store, id)
                       /\ ~StorageExists(backend, store', id, now, FALSE)
                  ELSE ret'.err = ErrDestroyFailed /\ store' = store
             ELSE /\ ret'.err # ErrNil
                  /\ ret'.setCookie = NoSetCookie
                  /\ store' \in {store, MapDel(store, id)}
                  /\ store' # store => ret'.err = ErrSessionNotFound]_vars

\* DestroySession has set the expiring cookie and failed to delete: the entry is
\* still live.
C15_Witness ==
    /\ Returned("DestroySession")
    /\ ret.setCookie = "expire"
    /\ ret.err = ErrDestroyFailed
    /\ StorageExists(backend, store, ret.cookie.val, now, FALSE)


\* What StartGC and StopGC can close, create or start: everything of the GC
\* state but the flag and the note of the last call.
GCResources(g) == <<g.ticker, g.stop, g.closed, g.stopped, g.pending, g.loops>>

\* C16: StartGC and StopGC are an idempotent toggle.  After StartGC gcRunning is
\* true and after StopGC it is false; a StartGC while the GC is running starts
\* no second loop and no second ticker, a StopGC while it is not running closes
\* no channel; an effective StartGC starts exactly one loop on a new ticker, an
\* effective StopGC closes exactly the current stop channel and stops the
\* current ticker.
C16_IdempotentToggle ==
    [][/\ ret'.op = "StartGC" =>
            /\ gc'.running
            /\ gc.running => GCResources(gc') = GCResources(gc)
            /\ ~gc.running =>
                  /\ Len(gc'.loops) = Len(gc.loops) + 1
                  /\ gc'.ticker \notin {gc.ticker} \cup gc.stopped
                  /\ gc'.closed = gc.closed
       /\ ret'.op = "StopGC" =>
            /\ ~gc'.running
            /\ ~gc.running => GCResources(gc') = GCResources(gc)
            /\ gc.running =>
                  /\ gc'.closed = gc.closed \cup {gc.stop}
                  /\ gc.stop \notin gc.closed
                  /\ gc'.stop \notin gc'.closed
                  /\ gc.ticker \in gc'.stopped
                  /\ gc'.loops = gc.loops]_vars

\* A StartGC returned at its guard while the loop of the first StartGC runs,
\* and earlier a StopGC did on a manager whose GC was started and stopped once.
C16_Witness ==
    /\ ret.op = "StartGC"
    /\ gc.noop
    /\ gc.running
    /\ Len(gc.loops) = 2
    /\ gc.closed = {0}

\* A loop goroutine whose StopGC has returned and that blocks in a select on a
\* stop channel nobody closed: it does not terminate after the matching StopGC.
Stranded(i) ==
    /\ i \in gc.stopped
    /\ gc.loops[i].pc = "waiting"
    /\ gc.loops[i].ch \notin gc.closed

\* C17: Start/Stop cycles leak no goroutine: once the StopGC that matches a
\* loop goroutine has returned, the goroutine is never left blocked on a stop
\* channel that was not closed, whatever it was doing when StopGC ran.
C17_NoLeak == \A i \in DOMAIN gc.loops : ~Stranded(i)

\* The closes of StopGC alone: no channel is closed twice.
C17_NoDoubleClose ==
    [][ret'.op = "StopGC" /\ gc'.closed # gc.closed => gc.stop \notin gc.closed]_vars

\* C18: a failing Storage.Cleanup never stops the GC loop.  The goroutine that
\* ran it is at the top of its loop again, the error is logged exactly when a
\* logger is set, and while the GC runs a tick that a loop waiting on an open
\* stop channel can receive leads to another Cleanup (or to StopGC).
C18_CleanupFailureKeepsLoop ==
    /\ [][ret'.op = "Cleanup" =>
             /\ \A i \in DOMAIN gc.loops :
                   gc.loops[i].pc = "cleanup" => gc'.loops[i].pc # "done"
             /\ gc'.logged = (ret'.err # ErrNil /\ gc.logger)
             /\ gc'.running = gc.running]_vars
    /\ (gc.running /\ \E i \in DOMAIN gc.loops :
            /\ gc.loops[i].pc = "waiting"
            /\ gc.loops[i].ch \notin gc.closed
            /\ gc.loops[i].tk \in gc.pending)
         ~> (~gc.running \/ \E i \in DOMAIN gc.loops : gc.loops[i].pc = "cleanup")

\* A Cleanup of the loop failed and was logged, and the same goroutine is
\* inside Cleanup again on a later tick.
C18_Witness ==
    /\ gc.logged
    /\ gc.running
    /\ Len(gc.loops) = 1
    /\ gc.loops[1].pc = "cleanup"

\* What the entry the client set last under id must be by the TTL contract.
TTLContract(id) ==
    LET e == sto.set[id]
        elapsed == now - e.at
        g == StorageGet(backend, store, id, now, FALSE)
        x == StorageExists(backend, store, id, now, FALSE)
    IN /\ e.ttl > 0 /\ elapsed < e.ttl => x /\ g.res = "data" /\ g.data = e.data
       /\ e.ttl > 0 /\ elapsed > e.ttl => ~x
       /\ e.ttl < 0 => ~x /\ g.res = "absent"

\* C19: TTL boundary, on both backends.  An entry set with a TTL t > 0, of less
\* than a second too, exists and is returned by Get from the Set on and at
\* every instant before t has elapsed, and does not exist once more than t has
\* elapsed; an entry set with a negative TTL is expired at once.
C19_TTLBoundary ==
    \A id \in DOMAIN sto.set : id # EmptyValue => TTLContract(id)

\* The same on MemoryStorage alone.
C19_MemoryTTLBoundary == backend = "memory" => C19_TTLBoundary

\* C20: Delete and Cleanup are idempotent.  A Delete whose statement does not
\* fail returns no error whether the ID is stored or not, removes that entry
\* and nothing else, changes nothing when the ID is not stored or when it
\* comes right after a Delete of the same ID, and leaves Exists false and Get
\* absent without error, as the calls that follow it report too; a Cleanup
\* whose statement does not fail returns no error and changes nothing when it
\* comes right after a Cleanup.
C20_Idempotent ==
    [][LET c == sto'
           after == Repeats(sto, "Delete", c.id) /\ ~c.fail
       IN /\ c.op = "Delete" /\ ~c.fail =>
               /\ c.ok
               /\ store' = MapDel(store, c.id)
               /\ c.id \notin DOMAIN store => store' = store
               /\ c.again => store' = store
               /\ ~StorageExists(backend, store', c.id, now', FALSE)
               /\ StorageGet(backend, store', c.id, now', FALSE).res = "absent"
          /\ c.op = "Get" /\ after => c.ok /\ c.res = "absent" /\ store' = store
          /\ c.op = "Exists" /\ after => ~c.exists
          /\ c.op = "Cleanup" /\ ~c.fail =>
               /\ c.ok
               /\ c.again => store' = store
               /\ StorageCleanup(backend, store', now', FALSE).st = store']_vars

\* A second Delete right after the first returned no error and left the other
\* entry of the store alone.
C20_Witness ==
    /\ sto.op = "Delete"
    /\ sto.ok
    /\ sto.again
    /\ sto.id \in IDs
    /\ store # EmptyMap

\* What a Cleanup that returned no error did to the store, by the contract.
CleanupExact ==
    sto'.op = "Cleanup" /\ sto'.ok =>
        /\ \A id \in DOMAIN store' :
               /\ id \in DOMAIN store
               /\ store'[id] = store[id]
               /\ id # EmptyValue => StorageExists(backend, store', id, now', FALSE)
        /\ \A id \in DOMAIN store :
               StorageExists(backend, store, id, now, FALSE) =>
                   id \in DOMAIN store' /\ store'[id] = store[id]

\* C21: Cleanup removes every entry whose expiry has passed and nothing else.
\* Right after a Cleanup every entry still stored exists (Exists is true of
\* it), and every entry that was not expired is still stored with the same
\* data and expiry.
C21_CleanupExact == [][CleanupExact]_vars

\* The same on MySQLStorage alone.
C21_MySQLCleanupExact == [][backend = "mysql" => CleanupExact]_vars

\* The instant, in ticks, at which a stored entry expires: MemoryStorage keeps a
\* time.Time, MySQLStorage whole unix seconds.
ExpiryInstant(e) ==
    IF backend = "memory" THEN e.expiresAt ELSE e.expiresAt * TicksPerSecond

\* What a Set without error over an entry set before did, by the contract.
UpsertLastWins ==
    LET c == sto'
    IN c.op = "Set" /\ c.ok /\ c.id # EmptyValue /\ c.id \in DOMAIN sto.set =>
          /\ DOMAIN store' = DOMAIN store \cup {c.id}
          /\ \A o \in DOMAIN store \ {c.id} : store'[o] = store[o]
          /\ store'[c.id].data = c.set[c.id].data
          /\ c.set[c.id].ttl > 0 =>
                LET g == StorageGet(backend, store', c.id, now', FALSE)
                IN /\ ExpiryInstant(store'[c.id]) = now + c.set[c.id].ttl
                   /\ g.res = "data"
                   /\ g.data = c.set[c.id].data

\* C22: Set is an upsert, the last write wins.  After a Set(id, b, t2) over an
\* entry set before, the store holds one entry for id, with data b, and the
\* entries of the other IDs are as they were; for t2 > 0 the expiry of the
\* entry is the instant of this Set plus t2 whatever the TTL of the earlier Set
\* was, and Get(id) returns b.
C22_UpsertLastWins == [][UpsertLastWins]_vars

\* The same on MemoryStorage alone.
C22_MemoryUpsertLastWins == [][backend = "memory" => UpsertLastWins]_vars

\* The flash messages the record in slot s holds for category c.
Queue(s, c) ==
    IF c \in DOMAIN rec[s].data.FlashData THEN rec[s].data.FlashData[c] ELSE <<>>

\* C23: flash drain.  A GetFlashes(c) returns the messages added to c since the
\* last GetFlashes(c), in the order of their AddFlash calls, so an empty
\* sequence when none was added since; the record holds for every category
\* exactly the messages added to it and not yet returned, so that a call on
\* one category leaves all others alone; no category name and the empty name
\* mean "default".
C23_FlashDrain ==
    /\ ret.op = "GetFlashes" => fl.got = fl.due
    /\ \A s \in Slots : pc[s] = "held" =>
          /\ \A c \in FlashCategories : Queue(s, c) = fl.owed[c]
          /\ DOMAIN rec[s].data.FlashData \subseteq FlashCategories

\* GetFlashes("error") returned two messages in the order they were added,
\* while the default category, addressed without a name, keeps its message.
C23_Witness ==
    /\ ret.op = "GetFlashes"
    /\ fl.category = <<"error">>
    /\ Len(fl.got) = 2
    /\ fl.got[1] # fl.got[2]
    /\ Len(fl.owed["default"]) = 1
    /\ pc[FirstSlot] = "held"
    /\ Queue(FirstSlot, "default") = fl.owed["default"]

\* The attributes of b are those of a except at the keys in ks.
SameExceptAt(a, b, ks) ==
    \A k \in ((DOMAIN a) \cup (DOMAIN b)) \ ks :
        k \in DOMAIN a /\ k \in DOMAIN b /\ a[k] = b[k]

\* C24: Set, Delete (of an absent key too), Clear, AddFlash and Touch leave the
\* record dirty; after Set(k, v) Get(k) returns v, after Delete(k) and after
\* Clear it finds nothing, and Set and Delete leave the other keys as they
\* were; none of the three changes anything else of the record; Get, ID,
\* LastAccess, CreatedAt and IsExpired return what the record holds and
\* change nothing.
C24_MutatorsMarkDirty ==
    [][LET c == fl'
           r == rec[FirstSlot]
           q == rec'[FirstSlot]
           a == r.data.Attributes
           b == q.data.Attributes
       IN ret'.op = c.op =>
          /\ c.op \in {"Set", "Delete", "Clear", "AddFlash", "Touch"} => q.dirty
          /\ c.op = "Set" =>
                /\ Get(q, c.key) = [value |-> c.value, exists |-> TRUE]
                /\ SameExceptAt(a, b, {c.key})
          /\ c.op = "Delete" =>
                /\ ~Get(q, c.key).exists
                /\ SameExceptAt(a, b, {c.key})
          /\ c.op = "Clear" => \A k \in AttrKeys : ~Get(q, k).exists
          /\ c.op \in {"Set", "Delete", "Clear"} =>
                q.data = [r.data EXCEPT !.Attributes = b]
          /\ c.op = "Touch" => q.data = [r.data EXCEPT !.LastAccess = now]
          /\ c.op = "AddFlash" =>
                q.data = [r.data EXCEPT !.FlashData = q.data.FlashData]
          /\ c.op \in {"Get", "ID", "LastAccess", "CreatedAt", "IsExpired"} =>
                /\ rec' = rec
                /\ store' = store
          /\ c.op = "Get" =>
                /\ c.got.exists = (c.key \in DOMAIN a)
                /\ c.got.exists => c.got.value = a[c.key]
          /\ c.op = "ID" => c.got = r.data.ID
          /\ c.op = "LastAccess" => c.got = r.data.LastAccess
          /\ c.op = "CreatedAt" => c.got = r.data.CreatedAt
          /\ c.op = "IsExpired" =>
                c.got = (now - r.data.CreatedAt > options.MaxAge)]_vars

\* A Delete of a key that was absent from a clean record left the record dirty.
C24_Witness ==
    /\ fl.op = "Delete"
    /\ fl.clean
    /\ fl.absent
    /\ ret.op = "Delete"
    /\ rec[FirstSlot].dirty

\* What a GetSession with the cookie of the request being served would decode
\* from the storage now, on a storage that works.
LaterLoad == GetSessionLoad(mw.cookie, options, backend, store, now, FALSE)

\* The storage holds the record of the middleware's session as it is now, with
\* what the handler did to it and the LastAccess of this request's GetSession,
\* and a later GetSession with the same cookie decodes it.
SavedAndVisible ==
    LET r == rec[mw.sess]
    IN /\ r.data.ID = mw.cookie.val
       /\ r.data.LastAccess = touched[mw.sess]
       /\ r.data.ID \in DOMAIN store
       /\ store[r.data.ID].data = StoredForm(r.data)
       /\ LaterLoad.err = ErrNil
       /\ LaterLoad.rec.data = Unmarshal(Marshal(r.data))
       /\ mw.path = "set" =>
             /\ Get(LaterLoad.rec, HandlerKey) = [value |-> HandlerValue, exists |-> TRUE]
             /\ HandlerCategory \in DOMAIN LaterLoad.rec.data.FlashData
             /\ LET q == LaterLoad.rec.data.FlashData[HandlerCategory]
                IN Len(q) > 0 /\ q[Len(q)] = HandlerMessage
       /\ mw.path = "get" => HandlerCategory \notin DOMAIN LaterLoad.rec.data.FlashData

C26_ResolutionFailureLogged ==
    [][(ret'.op = "GetSession" /\ ret'.err # ErrNil) =>
          /\ mw'.log = {"Failed to get session"}
          /\ mw'.pc = "next"
          /\ mw'.sess = 0
          /\ mw'.issued = EmptyValue]_vars

\* C27: whenever the middleware passes a request on to the handler, with or
\* without a session cookie, the context holds a session that is not nil.
\* (Under SpecMW.)
C27_SessionBeforeHandler ==
    mw.pc = "next" => mw.sess # 0

\* The two sequences have the same length and differ in one element.
OneAltered(a, b) ==
    /\ Len(a) = Len(b)
    /\ Cardinality({i \in 1..Len(a) : a[i] # b[i]}) = 1

\* C29: under a key AES accepts, encrypt returns the nonce it drew followed by
\* the sealed data, another nonce gives another output, and decrypt of the
\* output returns the plaintext; decrypt returns ErrDecryptionFailed for every
\* input shorter than a nonce and for every output of encrypt with one element
\* altered, and returns the plaintext for the output as it is.
\* (Under SpecCodec.)
C29_SealedRoundTrip ==
    options.EncryptionKey = GoodKey =>
        LET key == options.EncryptionKey
        IN /\ cx.op # "none" =>
                /\ cx.err = ErrNil
                /\ Len(cx.out) = NonceSize + Len(cx.plain) + TagSize
                /\ SubSeq(cx.out, 1, NonceSize) = cx.nonce
                /\ \A n \in Nonces \ {cx.nonce} :
                       encryptBytes(key, n, cx.plain) # cx.out
                /\ decryptBytesOk(key, cx.out)
                /\ decryptBytes(key, cx.out) = cx.plain
           /\ cx.op = "decrypt" =>
                /\ Len(cx.input) < NonceSize => cx.derr = ErrDecryptionFailed
                /\ OneAltered(cx.input, cx.out) => cx.derr = ErrDecryptionFailed
                /\ cx.input = cx.out => cx.derr = ErrNil /\ cx.res = cx.plain
                /\ cx.derr \in {ErrNil, ErrDecryptionFailed}

\* decrypt has rejected a ciphertext of a non-empty payload whose last data
\* byte was altered.
C29_Witness ==
    /\ options.EncryptionKey = GoodKey
    /\ cx.op = "decrypt"
    /\ Len(cx.plain) = MaxPlain
    /\ OneAltered(cx.input, cx.out)
    /\ cx.input[NonceSize + MaxPlain] # cx.out[NonceSize + MaxPlain]
    /\ cx.derr = ErrDecryptionFailed

\* The stored bytes are a ciphertext of the configured key.
SealedUnderKey(e) ==
    /\ options.EncryptionKey = GoodKey
    /\ e.kind = "sealed"
    /\ e.key = options.EncryptionKey

\* C28: without a key a Save that calls Storage.Set hands it the serialized
\* record, and a GetSession deserializes the stored bytes as they are; with a
\* key the bytes a Save stores are a ciphertext of the serialized record and
\* never the serialized record, a Save whose encryption fails returns
\* ErrEncryptionFailed and writes nothing, and a GetSession returns
\* ErrDecryptionFailed for every stored payload that is no ciphertext of the
\* key, and returns a session only from the plaintext of one.
\* (Under SpecPayload.)
C28_PayloadCodec ==
    [][LET key == options.EncryptionKey
           s == FirstSlot
       IN /\ (ret'.op \in {"Save", "NewSession"} /\ ret'.set /\ ret'.err = ErrNil) =>
                LET d == rec'[ret'.slot].data
                    e == store'[d.ID].data
                IN IF key = NoKey THEN e = Marshal(d)
                   ELSE /\ e # Marshal(d)
                        /\ SealedUnderKey(e)
                        /\ decrypt(key, e) = Marshal(d)
          /\ (ret'.op \in {"Save", "NewSession"} /\ key # NoKey /\ ~encryptOk(key)) =>
                /\ ret'.err \in {ErrNil, ErrRandom, ErrEncryptionFailed}
                /\ ret'.err = ErrNil => rec[ret'.slot].dirty = FALSE
                /\ ~ret'.set
                /\ store' = store
          /\ ret'.err = ErrEncryptionFailed => key # NoKey /\ ~encryptOk(key)
          /\ (pc[s] = "free" /\ pc'[s] = "loaded") =>
                LET e == store[call'[s].cookie.val].data
                IN IF key = NoKey THEN rec'[s].data = Unmarshal(e)
                   ELSE /\ SealedUnderKey(e)
                        /\ rec'[s].data = Unmarshal(e.plain)
          /\ (ret'.op = "GetSession" /\ ret'.got = "data" /\ ~ret'.decoded) =>
                IF key = NoKey THEN ret'.err = ErrInvalidSession
                ELSE IF ~SealedUnderKey(ret'.seen) THEN ret'.err = ErrDecryptionFailed
                ELSE ret'.err = ErrInvalidSession]_vars

\* Under a key, GetSession has refused with ErrDecryptionFailed a stored payload
\* that is the plain JSON document of a session.
C28_Witness ==
    /\ options.EncryptionKey = GoodKey
    /\ ret.op = "GetSession"
    /\ ret.err = ErrDecryptionFailed
    /\ ret.seen.kind = "json"
    /\ ret.seen.id = ret.cookie.val

\* The names of a list of named middlewares.
NamesOf(list) == {list[i].Name : i \in 1..Len(list)}

\* The overrides whose names are not among the named middlewares, in the order
\* of the override list.
Leftover(namedMiddlewares, overrides) ==
    SelectSeq(overrides, LAMBDA o : o.Name \notin NamesOf(namedMiddlewares))

\* How often the handler applies a middleware.
Applied(handler, middleware) ==
    Cardinality({i \in 1..Len(handler) : handler[i] = middleware})

\* No name occurs twice in the list.
DistinctNames(list) ==
    \A i, j \in 1..Len(list) : list[i].Name = list[j].Name => i = j

\* The handler wraps the innermost handler with the named middlewares in list
\* order, an override of the same name standing in for a named middleware at
\* its place, then with the leftover overrides in their order; a request runs
\* the middlewares from the last applied to the first.
ChainInOrder(pick(_, _)) ==
    LET named == rt.namedMiddlewares
        over == rt.overrides
        left == Leftover(named, over)
        h == rt.handler
    IN /\ Len(h) = Len(named) + Len(left)
       /\ \A i \in 1..Len(named) :
             IF named[i].Name \in NamesOf(over)
             THEN \E j \in 1..Len(over) :
                     /\ over[j].Name = named[i].Name
                     /\ pick(over, j)
                     /\ h[i] = over[j].Middleware
             ELSE h[i] = named[i].Middleware
       /\ \A k \in 1..Len(left) : h[Len(named) + k] = left[k].Middleware
       /\ rt.op = "ServeHTTP" =>
             \A i \in 1..Len(h) : rt.ran[i] = h[Len(h) + 1 - i]

\* Every middleware the lists offer for the chain is applied exactly once: the
\* named ones no override replaces, and the overrides.
EachOnce ==
    LET named == rt.namedMiddlewares
        over == rt.overrides
    IN /\ \A i \in 1..Len(named) :
             named[i].Name \notin NamesOf(over) =>
                 Applied(rt.handler, named[i].Middleware) = 1
       /\ \A j \in 1..Len(over) : Applied(rt.handler, over[j].Middleware) = 1

AnyOverride(over, j) == TRUE

LastOverride(over, j) == \A k \in (j + 1)..Len(over) : over[k].Name # over[j].Name

\* C30, as stated: the handler WithNamedMiddlewares returns is the chain in
\* order, with an override of the same name at the place of a named
\* middleware and the leftover overrides outermost, and every middleware is
\* applied exactly once.  (Under SpecRouter.)
C30_ChainOrder ==
    rt.op # "none" => ChainInOrder(AnyOverride) /\ EachOnce

\* C30, amended: the chain is in that order, the override standing in for a
\* named middleware being the last one of its name in the override list; and
\* every middleware is applied exactly once when no name occurs twice among
\* the named middlewares and none twice among the overrides.
\* (Under SpecRouter.)
C30_ChainOrderDistinctNames ==
    rt.op # "none" =>
        /\ ChainInOrder(LastOverride)
        /\ (DistinctNames(rt.namedMiddlewares) /\ DistinctNames(rt.overrides))
              => EachOnce

\* A request has run through a handler built from one named middleware, which
\* an override replaces, and two leftover overrides.
C30_Witness ==
    /\ rt.op = "ServeHTTP"
    /\ Len(rt.namedMiddlewares) = 1
    /\ Len(rt.overrides) = 3
    /\ DistinctNames(rt.overrides)
    /\ Len(Leftover(rt.namedMiddlewares, rt.overrides)) = 2
    /\ Len(rt.ran) = 3

C32_StopFromOwnTick ==
    /\ [][/\ (ret'.op = "StopGC" /\ ret'.got = "loop") =>
                /\ ~gc'.running
                /\ GCMutexFree'
                /\ gc'.loops[ret'.slot].pc = "stopped"
          /\ (ret'.op = "StopGC" /\ ~gc.running) =>
                /\ GCResources(gc') = GCResources(gc) \/ ret'.got = "loop"
                /\ \A i \in DOMAIN gc.loops :
                      gc.loops[i].pc # "locked" => gc'.loops[i] = gc.loops[i]
                /\ <<gc'.ticker, gc'.stop, gc'.closed, gc'.stopped, gc'.pending>>
                      = <<gc.ticker, gc.stop, gc.closed, gc.stopped, gc.pending>>
                /\ ~gc'.running]_vars
    /\ \A i \in 1..MaxGCStarts :
          (i \in DOMAIN gc.loops /\ gc.loops[i].pc = "stopgc")
              ~> (i \in DOMAIN gc.loops /\ gc.loops[i].pc # "stopgc"
                                         /\ gc.loops[i].pc # "locked")

\* The loop goroutine has stopped the running GC from inside its own Cleanup,
\* and is still inside that Cleanup.
C32_Witness ==
    /\ ret.op = "StopGC" /\ ret.got = "loop"
    /\ ~gc.noop
    /\ ~gc.running
    /\ gc.loops[ret.slot].pc = "stopped"
    /\ gc.loops[ret.slot].tk \in gc.stopped

\* On a storage that works, Exists(id) is true exactly when Get(id) returns
\* the blob.
GetAgreesWithExists(id) ==
    StorageExists(backend, store, id, now, FALSE)
        <=> StorageGet(backend, store, id, now, FALSE).res = "data"

\* C33: at every instant and for every ID, Exists(id) is true if and only if
\* Get(id) returns a blob, in both backends, the instant of the entry's expiry
\* included.  (Under SpecStore.)
C33_GetAgreesWithExists ==
    \A id \in StorageIds : GetAgreesWithExists(id)

\* C33 on the MySQL backend alone, where both statements compare expires_at
\* with the same whole second.
C33_MySQLGetAgreesWithExists ==
    backend = "mysql" => \A id \in StorageIds : GetAgreesWithExists(id)

\* C34: in the MemoryStorage every step that changes the sessions map is made
\* by a goroutine that holds the write lock, and so while no other goroutine
\* holds the lock in any mode.  (Under SpecLock.)
C34_MapWritesAreExclusive ==
    [][store' # store =>
          /\ lk.writer # 0
          /\ lk.g[lk.writer].pc = "holding"
          /\ Holders = {lk.writer}]_vars

\* C34 for Set, Delete and Cleanup alone, the methods that take ms.mu.Lock().
C34_WritersAreExclusive ==
    [][(store' # store /\ ret'.op # "Get") =>
          /\ lk.writer # 0
          /\ lk.g[lk.writer].pc = "holding"
          /\ Holders = {lk.writer}]_vars

\* C35: every GetFlashes call leaves the record dirty, whatever the record
\* holds.  (Under SpecFlashLoad.)
C35_GetFlashesMarksDirty ==
    ret.op = "GetFlashes" => rec[FirstSlot].dirty

\* C35 for the records that hold a flash map, empty or not.
C35_GetFlashesMarksDirtyUnlessNil ==
    (ret.op = "GetFlashes" /\ ~rec[FirstSlot].data.FlashNil) => rec[FirstSlot].dirty

\* C36: last Save wins.  The entry of a session is at every moment the whole
\* payload of the record whose Storage.Set ran last under its ID (saved holds
\* that record's data), never a mix of two records.  (Under SpecRace.)
C36_LastSaveWins ==
    \A id \in DOMAIN store :
        id \in DOMAIN saved => store[id].data = StoredForm(saved[id].data)

\* Two records of one session were both saved with different attributes: the
\* entry is the payload of the second and the first one's value is lost.
C36_Witness ==
    \E s \in Slots, o \in Slots :
        /\ s # o /\ pc[s] = "held" /\ pc[o] = "held"
        /\ rec[s].data.ID = rec[o].data.ID
        /\ ~rec[s].dirty /\ ~rec[o].dirty
        /\ rec[s].data.Attributes # rec[o].data.Attributes
        /\ rec[o].data.Attributes # EmptyMap
        /\ ret.op = "Save" /\ ret.slot = s /\ ret.set /\ ret.err = ErrNil
        /\ rec[s].data.ID \in DOMAIN store
        /\ store[rec[s].data.ID].data = StoredForm(rec[s].data)
        /\ store[rec[s].data.ID].data # StoredForm(rec[o].data)

RecordWellFormed(s) ==
    pc[s] = "held" =>
        /\ rec[s].data.ID # EmptyValue
        /\ rec[s].data.ID \in DOMAIN born
        /\ rec[s].data.CreatedAt = born[rec[s].data.ID]
        /\ rec[s].data.CreatedAt <= rec[s].data.LastAccess

\* No method of a record changes its ID or its creation time.
RecordKeepsIdentity(s) ==
    (pc[s] = "held" /\ pc'[s] = "held") =>
        /\ rec'[s].data.ID = rec[s].data.ID
        /\ rec'[s].data.CreatedAt = rec[s].data.CreatedAt

\* C38: record invariants.  In every state the program reaches through
\* NewSession, GetSession, Touch, the mutators, Save, reload and Destroy, over
\* a storage that holds what Save wrote, a record's ID is non-empty and never
\* changes, its creation time never changes, in the record and across reloads,
\* and createdAt <= lastAccess.  (Under SpecData.)
C38_RecordInvariants ==
    /\ [](\A s \in Slots : RecordWellFormed(s))
    /\ [][\A s \in Slots : RecordKeepsIdentity(s)]_vars

\* A session created earlier was loaded again at a later time, touched by the
\* load, after it had once been destroyed or saved with an attribute.
C38_Witness ==
    /\ Returned("GetSession") /\ ret.err = ErrNil
    /\ pc[FirstSlot] = "held"
    /\ rec[FirstSlot].data.CreatedAt < rec[FirstSlot].data.LastAccess
    /\ rec[FirstSlot].data.CreatedAt = born[rec[FirstSlot].data.ID]
    /\ rec[FirstSlot].data.Attributes # EmptyMap

\* The state last saved under an ID is neither older than MaxAge nor idle for
\* longer than IdleTimeout, and the session was not destroyed.
LogicallyValid(id) ==
    /\ id \in DOMAIN saved
    /\ id \notin destroyed
    /\ now - saved[id].data.CreatedAt <= options.MaxAge
    /\ now - saved[id].data.LastAccess <= options.IdleTimeout

\* Storage.Get would return the entry of the ID now.
EntryLive(id) ==
    /\ id \in DOMAIN store
    /\ IF backend = "memory" THEN ~(now > store[id].expiresAt)
       ELSE store[id].expiresAt > Unix(now)

\* C39: the storage TTL never cuts a session short.  While the state last
\* saved under an ID is logically valid its storage entry is live, and a
\* GetSession for it does not return not-found; on both backends.  (Under
\* SpecTTL.)
C39_TTLOutlivesSession ==
    /\ \A id \in IDs : LogicallyValid(id) => EntryLive(id)
    /\ (Returned("GetSession") /\ ret.cookie.has /\ ret.cookie.val \in IDs
           /\ LogicallyValid(ret.cookie.val))
          => ret.err # ErrSessionNotFound

\* C39 for the MemoryStorage alone.
C39_MemoryTTLOutlivesSession ==
    backend = "memory" => C39_TTLOutlivesSession

\* C39 for the managers whose idle timeout is at least a second below MaxAge.
C39_ShortIdleTTLOutlivesSession ==
    options.IdleTimeout + TicksPerSecond <= options.MaxAge => C39_TTLOutlivesSession

\* ServeHTTP of the timeout middleware is over, by a return or by a panic.
TimeoutEnded == tm.pc \in {"returned", "panicked"}

\* Every piece of the body was written by the given writer.
BodyOnlyBy(who) == \A i \in 1..Len(tm.w.body) : tm.w.body[i] = who

\* C40: one response per request.  When the handler finishes before the
\* timeout (the select takes the done case) its response is passed through,
\* nothing is logged and its panic is raised again in the caller; when the
\* timeout comes first (the select takes the timeout case) the response is 408
\* with the configured message and a warning is logged; and the handler
\* goroutine never uses the ResponseWriter while the timeout response is
\* written or after it.  (Under SpecTimeout.)
C40_OneResponse ==
    /\ (TimeoutEnded /\ tm.via = "done")
          => /\ tm.logged = 0
             /\ BodyOnlyBy("handler")
             /\ tm.w.status # StatusRequestTimeout
             /\ tm.panicValue <=> tm.pc = "panicked"
    /\ (TimeoutEnded /\ tm.via = "timeout")
          => /\ tm.w.status = StatusRequestTimeout
             /\ tm.w.body = <<"timeout">>
             /\ tm.logger => tm.logged = 1
    /\ ~tm.racing
    /\ ~tm.late

\* C40's last part alone: the handler goroutine does not use the
\* ResponseWriter after the timeout response.
C40_NoLateWrite == ~tm.late

\* What the two cases of the select do by themselves: the done case logs
\* nothing, writes nothing and raises the handler's panic again; the timeout
\* case logs one warning when there is a logger and writes its message at
\* most once.
C40_SelectCases ==
    /\ (TimeoutEnded /\ tm.via = "done")
          => /\ tm.logged = 0
             /\ BodyOnlyBy("handler")
             /\ tm.panicValue <=> tm.pc = "panicked"
    /\ (TimeoutEnded /\ tm.via = "timeout")
          => /\ tm.pc = "returned"
             /\ tm.logger => tm.logged = 1
             /\ Cardinality({i \in 1..Len(tm.w.body) : tm.w.body[i] = "timeout"}) <= 1
====
